---- MODULE Spec2Model ----
(***************************************************************************)
(* Model of courtclubapp: the camera capture / pixel filter pipeline       *)
(* (src/src/hooks/useCamera.js), the export compositor                     *)
(* (src/src/utils/ExportEngine.js), the drawing tool (DrawTool.jsx, in     *)
(* src/unnamed/part_000), App (src/unnamed/part_001) with the Done flow of *)
(* EditorLayer, the placed elements with their gestures                    *)
(* (EditorLayer.jsx, DraggableElement.jsx), and CameraLayer with the       *)
(* camera streams, the flash and the shutter (CameraLayer.jsx,             *)
(* useCamera.js).  Each subsystem has its own specification; the variables *)
(* of the other subsystems stay at their idle values.                      *)
(*                                                                         *)
(* Numbers.  The filter arithmetic of the source runs on IEEE-754 doubles. *)
(* Here every intermediate value is the exact rational <<n, d>> (d > 0, in *)
(* lowest terms) that the decimal literals of the source denote.  The      *)
(* double the source computes differs from that rational by less than      *)
(* 10^-9, far less than the distance (at least 1/600000) between a non-tie *)
(* value and the nearest rounding boundary, so the byte a                  *)
(* Uint8ClampedArray stores is the rounding of the exact value, except     *)
(* when the exact value lies exactly half way between two integers: there  *)
(* the floating error decides (mono on (2,12,47) is exactly 1.5 and the    *)
(* source stores 1; mono on (1,117,123) is exactly 78.5 and the source     *)
(* stores 79).  Evaluating the source's expressions in doubles for all     *)
(* 2^24 RGB triples gives a byte different from round-half-even of the     *)
(* exact value only on such ties.  ToUint8Clamp therefore returns the SET  *)
(* of bytes that may be stored: one byte off a tie, both neighbours on a   *)
(* tie.                                                                    *)
(***************************************************************************)
EXTENDS Integers, Sequences, FiniteSets, TLC

VARIABLES
    \* ---- a direct call applyPixelFilter(imageData, filterName) ----
    input,          \* imageData.data as handed to the first call
    data,           \* imageData.data now (mutated in place by each call)
    filterName,     \* the filterName argument of the calls
    calls,          \* number of completed calls on this buffer
    \* ---- the useCamera hook and one captureFrame() ----
    mounted,        \* videoRef.current and canvasRef.current are set
    selectedFilter, \* useState('original')
    facingMode,     \* useState('environment')
    video,          \* the video frame the last capture drew (one row of pixels)
    usedFilter,     \* the selectedFilter the last capture ran with
    drawn,          \* the canvas content the last capture had after Step 1
    canvas,         \* pixel content of canvasRef.current
    imageData,      \* the local ImageData buffer of the last capture, <<>> if none
    filterFault,    \* where the last filter step threw: none/get/apply/put
    dataUrl,        \* what the last captureFrame() returned (the encoded raster)
    \* ---- the camera streams of useCamera ----
    mediaDevices,   \* navigator.mediaDevices.getUserMedia exists
    requests,       \* the getUserMedia calls made, and the stream of each
    streamRef,      \* streamRef.current (and trackRef.current): 0 for null
    isReady,        \* useState(false)
    cameraError,    \* useState(null) of error: "" for null
    flashSupported, \* useState(false)
    \* ---- the flash of useCamera ----
    flashMode,      \* useState('off')
    flashOps,       \* the applyConstraints calls of applyFlash not yet settled
    offTimers,      \* the setTimeout(() => applyFlash('off'), 100) not yet fired
    \* ---- the shutter of CameraLayer ----
    isCapturing,    \* useState(false)
    shots,          \* the runs of handleShutter that got past its guard
    captured,       \* the images handed to onCapture, in order
    \* ---- one call exportImage({baseCanvas, strokes, elements, displayWidth}) ----
    exportArgs,     \* the arguments: [width, displayWidth, strokes, elements]
    exportPhase,    \* "idle" before the call, "drawn" once all layers are drawn
    exportScale,    \* const scale = dpr
    exportOps,      \* the draw calls made on the export canvas, in order
    exportPromise,  \* the promise exportImage returns: [state, dataURL, blob, error]
    \* ---- the DrawTool component and its parent's strokes state ----
    isActive,       \* prop isActive (EditorLayer's isDrawMode)
    isDrawing,      \* useState(false)
    currentStroke,  \* useState(null): <<>> for null, <<stroke>> otherwise
    strokes,        \* prop strokes (EditorLayer's persisted strokes state)
    strokeColor,    \* useState('#FFFFFF')
    brushSize,      \* useState('small')
    exitPending,    \* the setTimeout(() => onExit(), 0) of handleDone is queued
    \* ---- the App component ----
    mode,           \* useState('CAMERA')
    capturedImage,  \* useState(null): <<>> for null
    showSettings,   \* useState(false)
    toolPosition,   \* useState('right')
    \* ---- EditorLayer (its strokes state is above) and its Done flow ----
    baseCanvas,     \* baseCanvasRef.current: <<>> for null, else the canvas width
    canvasDimensions, \* useState({ width: 0, height: 0 })
    placedElements, \* useState([])
    isExporting,    \* useState(false)
    exportResult,   \* useState(null): <<>> for null, <<result>> otherwise
    doneFlow,       \* the latest run of handleDone: where it is, what it called
    canShare,       \* the browser: navigator.canShare is absent, says no, says yes
    \* ---- EditorLayer's tools and modals, and the clock ----
    activeTool,     \* useState(null): "(null)" for null
    isStickerDrawerOpen, \* useState(false)
    isEditingText,  \* useState(false)
    activeTextId,   \* useState(null): <<>> for null
    lastActionRef,  \* useRef(0)
    now,            \* Date.now()
    \* ---- the fingers on the screen and the DraggableElement instances ----
    touchPoints,    \* e.touches: the positions of the fingers that are down
    gestures        \* state and refs of the DraggableElement of each placed element

callVars == <<input, data, filterName, calls>>
hookVars == <<mounted, selectedFilter, facingMode, video, usedFilter, drawn,
              canvas, imageData, filterFault, dataUrl>>
captureVars == <<video, usedFilter, drawn, canvas, imageData, filterFault, dataUrl>>
exportVars == <<exportArgs, exportPhase, exportScale, exportOps, exportPromise>>
drawVars == <<isActive, isDrawing, currentStroke, strokes, strokeColor, brushSize,
              exitPending>>
appVars == <<mode, capturedImage, showSettings, toolPosition>>
layerVars == <<baseCanvas, canvasDimensions, placedElements, isExporting,
               exportResult>>
flowVars == <<doneFlow, canShare>>
toolVars == <<activeTool, isStickerDrawerOpen, isEditingText, activeTextId,
              lastActionRef, now>>
gestureVars == <<touchPoints, gestures>>
uiVars == <<appVars, layerVars, flowVars, toolVars, gestureVars>>
streamVars == <<mediaDevices, requests, streamRef, isReady, cameraError,
                flashSupported>>
flashVars == <<flashMode, flashOps, offTimers>>
shutterVars == <<isCapturing, shots, captured>>
deviceVars == <<streamVars, flashVars, shutterVars>>
cameraVars == <<callVars, hookVars, deviceVars>>
editorVars == <<exportVars, drawVars, uiVars>>
vars == <<input, data, filterName, calls, mounted, selectedFilter, facingMode,
          video, usedFilter, drawn, canvas, imageData, filterFault, dataUrl,
          mediaDevices, requests, streamRef, isReady, cameraError,
          flashSupported, flashMode, flashOps, offTimers, isCapturing, shots,
          captured,
          exportArgs, exportPhase, exportScale, exportOps, exportPromise,
          isActive, isDrawing, currentStroke, strokes, strokeColor, brushSize,
          exitPending, mode, capturedImage, showSettings, toolPosition,
          baseCanvas, canvasDimensions, placedElements, isExporting,
          exportResult, doneFlow, canShare, activeTool, isStickerDrawerOpen,
          isEditingText, activeTextId, lastActionRef, now, touchPoints,
          gestures>>

\* a promise that does not exist yet
NoPromise == [state |-> "none", dataURL |-> <<>>, blob |-> <<>>, error |-> ""]

\* no exportImage call has been made
ExportIdle ==
    /\ exportArgs = <<>>
    /\ exportPhase = "idle"
    /\ exportScale = <<>>
    /\ exportOps = <<>>
    /\ exportPromise = NoPromise

\* DrawTool as first rendered by EditorLayer: not active, no strokes
DrawIdle ==
    /\ isActive = FALSE
    /\ isDrawing = FALSE
    /\ currentStroke = <<>>
    /\ strokes = <<>>
    /\ strokeColor = "#FFFFFF"
    /\ brushSize = "small"
    /\ exitPending = FALSE

\* App as first rendered
AppIdle ==
    /\ mode = "CAMERA"
    /\ capturedImage = <<>>
    /\ showSettings = FALSE
    /\ toolPosition = "right"

\* no EditorLayer is rendered
LayerIdle ==
    /\ baseCanvas = <<>>
    /\ canvasDimensions = [width |-> <<0, 1>>, height |-> <<0, 1>>]
    /\ placedElements = <<>>
    /\ isExporting = FALSE
    /\ exportResult = <<>>

\* handleDone has not run: nothing was queried, called or returned
NoFlow == [pc |-> "idle", live |-> FALSE, queried |-> FALSE, invoked |-> FALSE,
           settled |-> "", result |-> <<>>, thrown |-> "", alert |-> FALSE,
           onDone |-> FALSE]

FlowIdle ==
    /\ doneFlow = NoFlow
    /\ canShare = "absent"

\* useState(null) of activeTool
NoTool == "(null)"

\* EditorLayer's tools as first rendered, at the time the page was loaded
ToolsIdle ==
    /\ activeTool = NoTool
    /\ isStickerDrawerOpen = FALSE
    /\ isEditingText = FALSE
    /\ activeTextId = <<>>
    /\ lastActionRef = 0
    /\ now = 1000

\* a DraggableElement as first rendered: its useState and useRef values
NoGesture ==
    [isDragging |-> FALSE, isScaling |-> FALSE, isOverDelete |-> FALSE,
     dragStartRef |-> [x |-> 0, y |-> 0],
     elementStartRef |-> [x |-> <<0, 1>>, y |-> <<0, 1>>],
     hasDraggedRef |-> FALSE,
     initialPinchDistanceRef |-> <<0, 1>>,
     initialScaleRef |-> <<1, 1>>,
     initialAngleRef |-> 0,
     initialRotationRef |-> 0]

\* no finger is down and no element is placed
GesturesIdle ==
    /\ touchPoints = <<>>
    /\ gestures = <<>>

UiIdle == AppIdle /\ LayerIdle /\ FlowIdle /\ ToolsIdle /\ GesturesIdle

EditorIdle == ExportIdle /\ DrawIdle /\ UiIdle

----------------------------------------------------------------------------
(* Bounds of the model *)

\* longest pixel buffer (in pixels) of a multi-pixel call or a video frame
MaxPixels == 2
\* number of successive applyPixelFilter calls on one buffer
MaxCalls == 2

----------------------------------------------------------------------------
(* Exact rational arithmetic for the JavaScript number expressions *)

Abs(x) == IF x < 0 THEN -x ELSE x

RECURSIVE GCD(_, _)
GCD(a, b) == IF b = 0 THEN a ELSE GCD(b, a % b)

Norm(n, d) == LET g == GCD(Abs(n), d) IN <<n \div g, d \div g>>

\* an integer (a byte read from the buffer, or an integer literal)
Num(k) == <<k, 1>>
\* a decimal literal n/d of the source, e.g. 0.299 is Dec(299, 1000)
Dec(n, d) == Norm(n, d)

Plus(a, b) == Norm(a[1] * b[2] + b[1] * a[2], a[2] * b[2])
Minus(a, b) == Norm(a[1] * b[2] - b[1] * a[2], a[2] * b[2])
Times(a, b) == Norm(a[1] * b[1], a[2] * b[2])
DivBy(a, k) == Norm(a[1], a[2] * k)
Less(a, b) == a[1] * b[2] < b[1] * a[2]

----------------------------------------------------------------------------
(* The pixel buffer: imageData.data, a Uint8ClampedArray *)

\* the ten filter ids (keys of FILTER_STYLES)
FILTER_STYLES == {"original", "warm", "cool", "vibrant", "vintage", "pastel",
                  "mono", "soft", "crisp", "fade"}

\* data[i] of the source (0-based) is data[i + 1] here
Byte(buf, i) == Num(buf[i + 1])

\* const clamp = (v) => v < 0 ? 0 : v > 255 ? 255 : v
clamp(v) == IF Less(v, Num(0)) THEN Num(0)
            ELSE IF Less(Num(255), v) THEN Num(255)
            ELSE v

\* data[i] = v on a Uint8ClampedArray: v is clamped to [0, 255] and rounded to
\* the nearest integer; the set holds both neighbours when the exact value is
\* a tie (see the note on numbers above).
ToUint8Clamp(v) == IF ~Less(Num(0), v) THEN {0}
                   ELSE IF ~Less(v, Num(255)) THEN {255}
                   ELSE LET f == v[1] \div v[2]
                            twice == 2 * (v[1] - f * v[2])
                        IN  IF twice < v[2] THEN {f}
                            ELSE IF twice > v[2] THEN {f + 1}
                            ELSE {f, f + 1}

\* slip: the store also forces the pixel opaque (data[i + 3] = 255)
Store3Opaque(buf, i, x, y, z) ==
    [buf EXCEPT ![i + 1] = x, ![i + 2] = y, ![i + 3] = z, ![i + 4] = 255]

\* data[i] = x; data[i + 1] = y; data[i + 2] = z
Store3(buf, i, x, y, z) == [buf EXCEPT ![i + 1] = x, ![i + 2] = y, ![i + 3] = z]

\* slip: the channels are rounded and stored without clamp() into a plain
\* Uint8Array, which wraps modulo 256 instead of saturating
StoreRGBWrapping(buf, i, rgb) ==
    LET Wrap(v) == { ((2 * v[1] + v[2]) \div (2 * v[2])) % 256 }
    IN  { Store3(buf, i, x, y, z) : x \in Wrap(rgb[1]), y \in Wrap(rgb[2]),
                                    z \in Wrap(rgb[3]) }

\* the buffers left by storing the three clamped channel values rgb at pixel i
StoreRGB(buf, i, rgb) ==
    { Store3(buf, i, x, y, z) : x \in ToUint8Clamp(clamp(rgb[1])),
                                y \in ToUint8Clamp(clamp(rgb[2])),
                                z \in ToUint8Clamp(clamp(rgb[3])) }

----------------------------------------------------------------------------
(* applyPixelFilter: the loop bodies, one per case of the switch.  Each     *)
(* xxxRGB is the value of (r, g, b) just before the three clamp() calls.    *)

\* slip: Rec. 709 luminance weights instead of the Rec. 601 ones
monoGray709(buf, i) ==
    Plus(Plus(Times(Byte(buf, i), Dec(2126, 10000)),
              Times(Byte(buf, i + 1), Dec(7152, 10000))),
         Times(Byte(buf, i + 2), Dec(722, 10000)))

\* const gray = data[i] * 0.299 + data[i + 1] * 0.587 + data[i + 2] * 0.114
monoGray(buf, i) ==
    Plus(Plus(Times(Byte(buf, i), Dec(299, 1000)),
              Times(Byte(buf, i + 1), Dec(587, 1000))),
         Times(Byte(buf, i + 2), Dec(114, 1000)))

\* slip: contrast not centred on 128 (gray * 1.1)
monoContrastedUncentred(gray) == Times(gray, Dec(11, 10))

\* const contrasted = (gray - 128) * 1.1 + 128
monoContrasted(gray) == Plus(Times(Minus(gray, Num(128)), Dec(11, 10)), Num(128))

monoRGB(buf, i) ==
    LET contrasted == monoContrasted(monoGray(buf, i))
    IN  <<contrasted, contrasted, contrasted>>

\* the one value `final` is stored in all three channels
monoBody(buf, i) ==
    { Store3(buf, i, f, f, f) : f \in ToUint8Clamp(clamp(monoRGB(buf, i)[1])) }

\* const gray = (r + g + b) / 3
grayOf(buf, i) == DivBy(Plus(Plus(Byte(buf, i), Byte(buf, i + 1)), Byte(buf, i + 2)), 3)

\* c = gray + (c - gray) * f
saturate(c, gray, f) == Plus(gray, Times(Minus(c, gray), f))

\* c = (c - 128) * f + 128
contrast(c, f) == Plus(Times(Minus(c, Num(128)), f), Num(128))

\* slip: the green shift of the comment above the loop ("G +5") instead of
\* the g += 8 of the code
warmRGBGreen5(buf, i) ==
    LET gray == grayOf(buf, i)
        r1 == saturate(Byte(buf, i), gray, Dec(115, 100))
        g1 == saturate(Byte(buf, i + 1), gray, Dec(11, 10))
        b1 == saturate(Byte(buf, i + 2), gray, Dec(9, 10))
        r2 == Plus(r1, Num(15))
        g2 == Plus(g1, Num(5))
        b2 == Minus(b1, Num(20))
    IN  <<Times(r2, Dec(108, 100)), Times(g2, Dec(105, 100)), Times(b2, Dec(10, 10))>>

warmRGB(buf, i) ==
    LET gray == grayOf(buf, i)
        r1 == saturate(Byte(buf, i), gray, Dec(115, 100))
        g1 == saturate(Byte(buf, i + 1), gray, Dec(11, 10))
        b1 == saturate(Byte(buf, i + 2), gray, Dec(9, 10))
        r2 == Plus(r1, Num(15))
        g2 == Plus(g1, Num(8))
        b2 == Minus(b1, Num(20))
    IN  <<Times(r2, Dec(108, 100)), Times(g2, Dec(105, 100)), Times(b2, Dec(10, 10))>>

\* slip: red is shifted up by 10 instead of down
coolRGBRedUp(buf, i) ==
    LET gray == grayOf(buf, i)
        r1 == saturate(Byte(buf, i), gray, Dec(9, 10))
        g1 == saturate(Byte(buf, i + 1), gray, Dec(10, 10))
        b1 == saturate(Byte(buf, i + 2), gray, Dec(11, 10))
        r2 == Plus(r1, Num(10))
        g2 == Plus(g1, Num(5))
        b2 == Plus(b1, Num(20))
    IN  <<Times(r2, Dec(102, 100)), Times(g2, Dec(105, 100)), Times(b2, Dec(108, 100))>>

coolRGB(buf, i) ==
    LET gray == grayOf(buf, i)
        r1 == saturate(Byte(buf, i), gray, Dec(9, 10))
        g1 == saturate(Byte(buf, i + 1), gray, Dec(10, 10))
        b1 == saturate(Byte(buf, i + 2), gray, Dec(11, 10))
        r2 == Minus(r1, Num(10))
        g2 == Plus(g1, Num(5))
        b2 == Plus(b1, Num(20))
    IN  <<Times(r2, Dec(102, 100)), Times(g2, Dec(105, 100)), Times(b2, Dec(108, 100))>>

\* slip: brightness is applied before the contrast step
vibrantRGBBrightnessFirst(buf, i) ==
    LET gray == grayOf(buf, i)
        r1 == saturate(Byte(buf, i), gray, Dec(15, 10))
        g1 == saturate(Byte(buf, i + 1), gray, Dec(15, 10))
        b1 == saturate(Byte(buf, i + 2), gray, Dec(15, 10))
        r2 == Times(r1, Dec(103, 100))
        g2 == Times(g1, Dec(103, 100))
        b2 == Times(b1, Dec(103, 100))
    IN  <<contrast(r2, Dec(11, 10)), contrast(g2, Dec(11, 10)), contrast(b2, Dec(11, 10))>>

vibrantRGB(buf, i) ==
    LET gray == grayOf(buf, i)
        r1 == saturate(Byte(buf, i), gray, Dec(15, 10))
        g1 == saturate(Byte(buf, i + 1), gray, Dec(15, 10))
        b1 == saturate(Byte(buf, i + 2), gray, Dec(15, 10))
        r2 == contrast(r1, Dec(11, 10))
        g2 == contrast(g1, Dec(11, 10))
        b2 == contrast(b1, Dec(11, 10))
    IN  <<Times(r2, Dec(103, 100)), Times(g2, Dec(103, 100)), Times(b2, Dec(103, 100))>>

\* slip: the contrast step runs before the sepia tint
vintageRGBContrastFirst(buf, i) ==
    LET gray == grayOf(buf, i)
        r1 == saturate(Byte(buf, i), gray, Dec(7, 10))
        g1 == saturate(Byte(buf, i + 1), gray, Dec(7, 10))
        b1 == saturate(Byte(buf, i + 2), gray, Dec(7, 10))
        r2 == contrast(r1, Dec(85, 100))
        g2 == contrast(g1, Dec(85, 100))
        b2 == contrast(b1, Dec(85, 100))
        r3 == Plus(Times(r2, Dec(11, 10)), Num(10))
        g3 == Plus(Times(g2, Dec(10, 10)), Num(5))
        b3 == Minus(Times(b2, Dec(85, 100)), Num(5))
    IN  <<Plus(r3, Num(15)), Plus(g3, Num(10)), Plus(b3, Num(5))>>

vintageRGB(buf, i) ==
    LET gray == grayOf(buf, i)
        r1 == saturate(Byte(buf, i), gray, Dec(7, 10))
        g1 == saturate(Byte(buf, i + 1), gray, Dec(7, 10))
        b1 == saturate(Byte(buf, i + 2), gray, Dec(7, 10))
        r2 == Plus(Times(r1, Dec(11, 10)), Num(10))
        g2 == Plus(Times(g1, Dec(10, 10)), Num(5))
        b2 == Minus(Times(b1, Dec(85, 100)), Num(5))
        r3 == contrast(r2, Dec(85, 100))
        g3 == contrast(g2, Dec(85, 100))
        b3 == contrast(b2, Dec(85, 100))
    IN  <<Plus(r3, Num(15)), Plus(g3, Num(10)), Plus(b3, Num(5))>>

\* (r, g, b) of pixel i just before clamp(), for a name with a case
rgbBeforeClamp(buf, name, i) ==
    CASE name = "mono"    -> monoRGB(buf, i)
      [] name = "warm"    -> warmRGB(buf, i)
      [] name = "cool"    -> coolRGB(buf, i)
      [] name = "vibrant" -> vibrantRGB(buf, i)
      [] name = "vintage" -> vintageRGB(buf, i)

\* the filter names that have a case in the switch; every other name takes
\* the default branch
PixelMathFilters == {"mono", "warm", "cool", "vibrant", "vintage"}

\* the buffers one iteration of the loop at offset i can leave
loopBody(buf, name, i) ==
    CASE name = "mono"    -> monoBody(buf, i)
      [] name = "warm"    -> StoreRGB(buf, i, warmRGB(buf, i))
      [] name = "cool"    -> StoreRGB(buf, i, coolRGB(buf, i))
      [] name = "vibrant" -> StoreRGB(buf, i, vibrantRGB(buf, i))
      [] name = "vintage" -> StoreRGB(buf, i, vintageRGB(buf, i))
      [] OTHER            -> {buf}

\* for (let i = from; i < upto; i += 4) body
RECURSIVE filterLoop(_, _, _, _)
filterLoop(buf, name, from, upto) ==
    IF from >= upto THEN {buf}
    ELSE UNION { filterLoop(b, name, from + 4, upto) : b \in loopBody(buf, name, from) }

\* slip: the default branch falls into the mono case
applyPixelFilterDefaultMono(buf, name) ==
    filterLoop(buf, IF name \in PixelMathFilters THEN name ELSE "mono", 0, Len(buf))

\* applyPixelFilter(imageData, filterName): the buffers the call can leave in
\* imageData.data (default: "No filter or unknown - leave pixels unchanged")
applyPixelFilter(buf, name) ==
    IF name \in PixelMathFilters THEN filterLoop(buf, name, 0, Len(buf)) ELSE {buf}

----------------------------------------------------------------------------
(* Inputs *)

\* channel values of the single-pixel buffers
Levels == {0, 50, 100, 200, 255}
Alphas == {0, 128, 255}

\* pixels whose exact filter result is a rounding tie in some channel:
\* mono (2,12,47) and (1,117,123), warm (0,0,140), cool (0,3,79),
\* vintage (123,19,255)
TiePixels == {<<2, 12, 47, 255>>, <<1, 117, 123, 255>>, <<0, 0, 140, 255>>,
              <<0, 3, 79, 255>>, <<123, 19, 255, 255>>}

SinglePixels == {<<r, g, b, a>> : r \in Levels, g \in Levels, b \in Levels, a \in Alphas}
                    \cup TiePixels

\* pixels of the multi-pixel buffers (any alpha)
FewPixels == {<<0, 0, 0, 0>>, <<200, 100, 50, 128>>, <<255, 255, 255, 255>>}

\* pixels of a video frame drawn on the canvas: always opaque
FramePixels == {<<200, 100, 50, 255>>, <<10, 240, 90, 255>>}

\* all buffers of 1..n pixels over the pixel set P, as flat byte sequences
RECURSIVE BuffersOf(_, _)
BuffersOf(P, n) ==
    IF n = 0 THEN {<<>>}
    ELSE LET shorter == BuffersOf(P, n - 1)
         IN  shorter \cup {b \o p : b \in {s \in shorter : Len(s) = 4 * (n - 1)}, p \in P}

CallBuffers == SinglePixels \cup (BuffersOf(FewPixels, MaxPixels) \ {<<>>})
Frames == BuffersOf(FramePixels, MaxPixels) \ {<<>>}

----------------------------------------------------------------------------
(* A direct call of applyPixelFilter on a caller's buffer *)

\* captureFrame returned null (a frame has at least one pixel)
Null == <<>>

HookIdle ==
    /\ mounted = FALSE
    /\ selectedFilter = "original"
    /\ facingMode = "environment"
    /\ video = <<>>
    /\ usedFilter = "original"
    /\ drawn = <<>>
    /\ canvas = <<>>
    /\ imageData = <<>>
    /\ filterFault = "none"
    /\ dataUrl = Null

\* no camera has been asked for, the flash is off, the shutter is at rest
DeviceAtRest ==
    /\ requests = <<>>
    /\ streamRef = 0
    /\ isReady = FALSE
    /\ cameraError = ""
    /\ flashSupported = FALSE
    /\ flashMode = "off"
    /\ flashOps = <<>>
    /\ offTimers = <<>>
    /\ isCapturing = FALSE
    /\ shots = 0
    /\ captured = <<>>

\* the same in a browser that has navigator.mediaDevices.getUserMedia
DeviceIdle == mediaDevices = TRUE /\ DeviceAtRest

NoCall ==
    /\ input = <<>>
    /\ data = <<>>
    /\ filterName = "original"
    /\ calls = 0

InitFilter ==
    /\ input \in CallBuffers
    /\ data = input
    /\ filterName \in FILTER_STYLES
    /\ calls = 0
    /\ HookIdle
    /\ DeviceIdle
    /\ EditorIdle

\* slip: a buffer that was filtered once is left alone by later calls
ApplyPixelFilterOnce ==
    /\ calls < MaxCalls
    /\ data' \in IF calls = 0 THEN applyPixelFilter(data, filterName) ELSE {data}
    /\ calls' = calls + 1
    /\ UNCHANGED <<input, filterName>>
    /\ UNCHANGED hookVars
    /\ UNCHANGED deviceVars
    /\ UNCHANGED editorVars

\* applyPixelFilter(imageData, filterName): mutates imageData.data in place
ApplyPixelFilter ==
    /\ calls < MaxCalls
    /\ data' \in applyPixelFilter(data, filterName)
    /\ calls' = calls + 1
    /\ UNCHANGED <<input, filterName>>
    /\ UNCHANGED hookVars
    /\ UNCHANGED deviceVars
    /\ UNCHANGED editorVars

NextFilter == ApplyPixelFilter

FilterSpec == InitFilter /\ [][NextFilter]_vars

----------------------------------------------------------------------------
(* The useCamera hook: setFilter, flipCamera, captureFrame *)

\* the ids a caller may pass to setFilter: the ten filters and an unknown one
FilterIds == FILTER_STYLES \cup {"sepia"}

\* a one-row frame with its pixels in reverse order:
\* ctx.translate(canvas.width, 0); ctx.scale(-1, 1)
RECURSIVE Mirror(_)
Mirror(buf) ==
    IF Len(buf) = 0 THEN <<>>
    ELSE Mirror(SubSeq(buf, 5, Len(buf))) \o SubSeq(buf, 1, 4)

\* Step 1: the canvas after the raw video frame has been drawn on it
drawFrame(frame, facing) == IF facing = "user" THEN Mirror(frame) ELSE frame

\* slip: the filter runs on the canvas pixels in place, so whatever was
\* transformed before a throw stays on the canvas
filterStepInPlace(cv, name) ==
    IF name = "original"
    THEN {[canvas |-> cv, imageData |-> <<>>, fault |-> "none"]}
    ELSE {[canvas |-> cv, imageData |-> <<>>, fault |-> "get"]}
         \cup {[canvas |-> b, imageData |-> b, fault |-> "apply"] :
                 b \in UNION { filterLoop(cv, name, 0, 4 * k) :
                               k \in IF name \in PixelMathFilters
                                     THEN 0 .. (Len(cv) \div 4 - 1) ELSE {} }}
         \cup {[canvas |-> b, imageData |-> b, fault |-> "put"] :
                 b \in applyPixelFilter(cv, name)}
         \cup {[canvas |-> b, imageData |-> b, fault |-> "none"] :
                 b \in applyPixelFilter(cv, name)}

\* Step 2: the filter step on the canvas content cv.  Every outcome is a record
\* of the canvas afterwards, the local ImageData buffer at the end of the step
\* (<<>> when the step created none) and the place where the step threw.
\*   get:   ctx.getImageData throws
\*   apply: applyPixelFilter throws after k whole pixels were transformed
\*   put:   ctx.putImageData throws (nothing is written)
\* The catch block only logs, so the canvas keeps what Step 1 drew.
filterStep(cv, name) ==
    IF name = "original"
    THEN {[canvas |-> cv, imageData |-> <<>>, fault |-> "none"]}
    ELSE {[canvas |-> cv, imageData |-> <<>>, fault |-> "get"]}
         \cup {[canvas |-> cv, imageData |-> b, fault |-> "apply"] :
                 b \in UNION { filterLoop(cv, name, 0, 4 * k) :
                               k \in IF name \in PixelMathFilters
                                     THEN 0 .. (Len(cv) \div 4 - 1) ELSE {} }}
         \cup {[canvas |-> cv, imageData |-> b, fault |-> "put"] :
                 b \in applyPixelFilter(cv, name)}
         \cup {[canvas |-> b, imageData |-> b, fault |-> "none"] :
                 b \in applyPixelFilter(cv, name)}

\* Step 3: canvas.toDataURL('image/jpeg', 0.92), represented by the raster it
\* encodes
toDataURL(cv) == cv

InitCapture == NoCall /\ HookIdle /\ DeviceIdle /\ EditorIdle

CameraIdle == NoCall /\ HookIdle /\ DeviceIdle

\* React attaches <video ref={videoRef}> and <canvas ref={canvasRef}>
Mount ==
    /\ ~mounted
    /\ mounted' = TRUE
    /\ UNCHANGED <<selectedFilter, facingMode>>
    /\ UNCHANGED captureVars
    /\ UNCHANGED callVars
    /\ UNCHANGED deviceVars
    /\ UNCHANGED editorVars

\* setFilter(filterId): ignored unless FILTER_STYLES[filterId] is set
SetFilter(filterId) ==
    /\ selectedFilter' = IF filterId \in FILTER_STYLES THEN filterId ELSE selectedFilter
    /\ UNCHANGED <<mounted, facingMode>>
    /\ UNCHANGED captureVars
    /\ UNCHANGED callVars
    /\ UNCHANGED deviceVars
    /\ UNCHANGED editorVars

\* flipCamera()
FlipCamera ==
    /\ facingMode' = IF facingMode = "environment" THEN "user" ELSE "environment"
    /\ UNCHANGED <<mounted, selectedFilter>>
    /\ UNCHANGED captureVars
    /\ UNCHANGED callVars
    /\ UNCHANGED deviceVars
    /\ UNCHANGED editorVars

\* captureFrame() before the refs are attached: return null
CaptureFrameNull ==
    /\ ~mounted
    /\ dataUrl' = Null
    /\ UNCHANGED <<mounted, selectedFilter, facingMode, video, usedFilter, drawn,
                   canvas, imageData, filterFault>>
    /\ UNCHANGED callVars
    /\ UNCHANGED deviceVars
    /\ UNCHANGED editorVars

\* captureFrame() on the current video frame
CaptureFrame(frame) ==
    /\ mounted
    /\ \E out \in filterStep(drawFrame(frame, facingMode), selectedFilter) :
          /\ video' = frame
          /\ usedFilter' = selectedFilter
          /\ drawn' = drawFrame(frame, facingMode)
          /\ canvas' = out.canvas
          /\ imageData' = out.imageData
          /\ filterFault' = out.fault
          /\ dataUrl' = toDataURL(out.canvas)
    /\ UNCHANGED <<mounted, selectedFilter, facingMode>>
    /\ UNCHANGED callVars
    /\ UNCHANGED deviceVars
    /\ UNCHANGED editorVars

NextCapture ==
    \/ Mount
    \/ \E filterId \in FilterIds : SetFilter(filterId)
    \/ FlipCamera
    \/ CaptureFrameNull
    \/ \E frame \in Frames : CaptureFrame(frame)

CaptureSpec == InitCapture /\ [][NextCapture]_vars

----------------------------------------------------------------------------
(* The export compositor (src/src/utils/ExportEngine.js)                    *)
(*                                                                          *)
(* A JavaScript number of the export arithmetic is the exact rational       *)
(* <<n, d>> with d > 0 when it is finite, <<1, 0>> or <<-1, 0>> when it is  *)
(* +Infinity or -Infinity, and <<0, 0>> when it is NaN.  The value          *)
(* undefined is <<>>.  All operands here are small integers and halves, so  *)
(* the products and quotients of the source are exact or, for x / 150,      *)
(* within one rounding of the rational; -0 does not arise because widths    *)
(* are never negative.                                                      *)

\* longest strokes array of an export request
MaxStrokes == 2
\* longest elements array of an export request
MaxElements == 3

Undefined == <<>>
NaN == <<0, 0>>
Infinity == <<1, 0>>

Sign(n) == IF n > 0 THEN 1 ELSE IF n < 0 THEN -1 ELSE 0
IsFinite(a) == a[2] # 0

\* ToNumber of the operands of / and *: undefined becomes NaN
ToNumber(v) == IF v = Undefined THEN NaN ELSE v

\* a / b
jsDivide(a, b) ==
    LET x == ToNumber(a)
        y == ToNumber(b)
    IN  IF x = NaN \/ y = NaN THEN NaN
        ELSE IF ~IsFinite(x) THEN IF ~IsFinite(y) THEN NaN
                                  ELSE <<x[1] * (IF y[1] < 0 THEN -1 ELSE 1), 0>>
        ELSE IF ~IsFinite(y) THEN Num(0)
        ELSE IF y[1] = 0 THEN IF x[1] = 0 THEN NaN ELSE <<Sign(x[1]), 0>>
        ELSE Norm(x[1] * y[2] * Sign(y[1]), x[2] * Abs(y[1]))

\* a * b
jsTimes(a, b) ==
    LET x == ToNumber(a)
        y == ToNumber(b)
    IN  IF x = NaN \/ y = NaN THEN NaN
        ELSE IF ~IsFinite(x) \/ ~IsFinite(y)
             THEN IF x[1] = 0 \/ y[1] = 0 THEN NaN
                  ELSE <<Sign(x[1]) * Sign(y[1]), 0>>
        ELSE Times(x, y)

\* ToBoolean of a number or undefined: undefined, NaN and 0 are falsy
Truthy(v) == v # Undefined /\ v # NaN /\ v # Num(0)
\* a || b
OrElse(a, b) == IF Truthy(a) THEN a ELSE b

\* a property that is absent reads as undefined; in string position it is
\* this value, which no string of the requests equals
NoString == "(undefined)"
\* s || fallback for a string s: undefined and '' are falsy
StringOr(s, fallback) == IF s = NoString \/ s = "" THEN fallback ELSE s

\* an element.data.style without any property
NoStyle == [fontId |-> NoString, color |-> NoString, textAlign |-> NoString,
            styleMode |-> NoString]
\* an element.data without any property
NoData == [stickerId |-> NoString, emojiChar |-> NoString, text |-> NoString,
           style |-> NoStyle]

\* const BRUSH_SIZES = { small: 4, medium: 8 }
BRUSH_SIZES == [small |-> 4, medium |-> 8]

\* (BRUSH_SIZES[stroke.size] || BRUSH_SIZES.small)
brushWidth(size) == IF size \in DOMAIN BRUSH_SIZES THEN Num(BRUSH_SIZES[size])
                    ELSE Num(BRUSH_SIZES.small)

\* the path of one stroke: beginPath, strokeStyle, lineWidth, round caps and
\* joins, moveTo the first point, lineTo every later point in order, stroke()
strokePath(stroke, scale) ==
    [op |-> "stroke",
     strokeStyle |-> stroke.color,
     lineWidth |-> jsTimes(brushWidth(stroke.size), scale),
     path |-> [j \in 1 .. Len(stroke.points) |->
                  <<jsTimes(stroke.points[j].x, scale),
                    jsTimes(stroke.points[j].y, scale)>>]]

\* slip: break instead of return, the first short stroke ends the loop
drawStrokesStopAtShort(list, scale) ==
    LET short == {k \in 1 .. Len(list) : Len(list[k].points) < 2}
        stop == IF short = {} THEN Len(list) + 1
                ELSE CHOOSE k \in short : \A m \in short : k <= m
    IN  [k \in 1 .. (stop - 1) |-> strokePath(list[k], scale)]

\* drawStrokes(ctx, strokes, scale), list being its strokes argument:
\* strokes.forEach, where a stroke of fewer
\* than 2 points returns from the callback before any call on ctx
drawStrokes(list, scale) ==
    LET drawable(stroke) == ~(Len(stroke.points) < 2)
        kept == SelectSeq(list, drawable)
    IN  [k \in 1 .. Len(kept) |-> strokePath(kept[k], scale)]

\* drawSticker(ctx, element, scale): translate(x, y), rotate, placeholder
\* square of side size with a border of lineWidth, label at the origin.
\* rotation is kept in degrees (the source converts to radians).
drawSticker(element, scale) ==
    [op |-> "sticker",
     x |-> jsTimes(element.x, scale),
     y |-> jsTimes(element.y, scale),
     rotation |-> element.rotation,
     size |-> jsTimes(jsTimes(Num(80), element.scale), scale),
     lineWidth |-> jsTimes(Num(2), scale),
     label |-> StringOr(element.data.stickerId, "sticker")]

\* slip: y is taken unscaled
drawEmojiUnscaledY(element, scale) ==
    [op |-> "emoji",
     x |-> jsTimes(element.x, scale),
     y |-> ToNumber(element.y),
     rotation |-> element.rotation,
     fontSize |-> jsTimes(jsTimes(Num(48), element.scale), scale),
     char |-> StringOr(element.data.emojiChar, "smile")]

\* drawEmoji(ctx, element, scale); "smile" stands for the default emoji
drawEmoji(element, scale) ==
    [op |-> "emoji",
     x |-> jsTimes(element.x, scale),
     y |-> jsTimes(element.y, scale),
     rotation |-> element.rotation,
     fontSize |-> jsTimes(jsTimes(Num(48), element.scale), scale),
     char |-> StringOr(element.data.emojiChar, "smile")]

\* const FONTS = { classic: ..., bold: ..., ... }: font id to font family
FONTS == [classic |-> "-apple-system, BlinkMacSystemFont, sans-serif",
          bold |-> "-apple-system, BlinkMacSystemFont, sans-serif",
          serif |-> "Georgia, Times New Roman, serif",
          mono |-> "SF Mono, Menlo, monospace",
          condensed |-> "Arial Narrow, sans-serif",
          script |-> "Snell Roundhand, cursive"]

\* slip: white ink on every background
contrastInkAlwaysWhite(color) == "#FFF"

\* (color === '#FFFFFF' || color === '#FFCC00') ? '#000' : '#FFF'
contrastInk(color) == IF color = "#FFFFFF" \/ color = "#FFCC00" THEN "#000"
                      ELSE "#FFF"

\* drawText(ctx, element, scale).  ink is the colour the glyphs are painted
\* with (strokeStyle of strokeText, fillStyle of fillText); fill is the
\* fillStyle of the rounded rectangle behind them, when there is one.
drawText(element, scale) ==
    LET style == element.data.style
        text == StringOr(element.data.text, "")
        color == StringOr(style.color, "#fff")
        textMode == style.styleMode
    IN  [op |-> "text",
         x |-> jsTimes(element.x, scale),
         y |-> jsTimes(element.y, scale),
         rotation |-> element.rotation,
         fontFamily |-> IF style.fontId \in DOMAIN FONTS THEN FONTS[style.fontId]
                        ELSE FONTS.classic,
         fontWeight |-> IF style.fontId = "bold" THEN "700" ELSE "400",
         fontSize |-> jsTimes(jsTimes(Num(24), element.scale), scale),
         textAlign |-> StringOr(style.textAlign, "center"),
         text |-> text,
         styleMode |-> IF textMode \in {"stroke", "background", "highlight"} THEN textMode
                       ELSE "normal",
         fill |-> IF textMode \in {"background", "highlight"} THEN color ELSE "none",
         padding |-> IF textMode = "background" THEN jsTimes(Num(8), scale)
                     ELSE IF textMode = "highlight" THEN jsTimes(Num(12), scale)
                     ELSE Num(0),
         radius |-> IF textMode = "background" THEN jsTimes(Num(4), scale)
                    ELSE IF textMode = "highlight" THEN jsTimes(Num(8), scale)
                    ELSE Num(0),
         ink |-> IF textMode \in {"background", "highlight"} THEN contrastInk(color)
                 ELSE color]

\* const order = { sticker: 0, emoji: 1, text: 2 }
order == [sticker |-> 0, emoji |-> 1, text |-> 2]

\* slip: text below emoji
orderOfTextFirst(type) == IF type = "text" THEN 1
                          ELSE IF type = "emoji" THEN 2
                          ELSE 0

\* (order[type] || 0)
orderOf(type) == IF type \in DOMAIN order THEN order[type] ELSE 0

\* the comparator (a, b) => (order[a.type] || 0) - (order[b.type] || 0)
compare(a, b) == orderOf(a.type) - orderOf(b.type)

\* slip: an unstable sort, an element passes the elements it compares equal to
insertBeforeEquals(sorted, e) ==
    LET before == {k \in 1 .. Len(sorted) : compare(sorted[k], e) < 0}
        n == Cardinality(before)
    IN  SubSeq(sorted, 1, n) \o <<e>> \o SubSeq(sorted, n + 1, Len(sorted))

\* one insertion of Array.prototype.sort, which is stable: e goes behind
\* every element that does not compare greater than it
insert(sorted, e) ==
    LET notAfter == {k \in 1 .. Len(sorted) : compare(sorted[k], e) <= 0}
        n == Cardinality(notAfter)
    IN  SubSeq(sorted, 1, n) \o <<e>> \o SubSeq(sorted, n + 1, Len(sorted))

\* [...elements].sort(comparator): a sorted copy
RECURSIVE sortedElements(_)
sortedElements(elements) ==
    IF elements = <<>> THEN <<>>
    ELSE insert(sortedElements(SubSeq(elements, 1, Len(elements) - 1)),
                elements[Len(elements)])

\* slip (of the claim's policy): an element without data draws nothing
drawElementSkipMalformed(element, scale) ==
    IF element.type = "sticker" /\ element.data.stickerId # NoString
    THEN <<drawSticker(element, scale)>>
    ELSE IF element.type = "emoji" /\ element.data.emojiChar # NoString
    THEN <<drawEmoji(element, scale)>>
    ELSE IF element.type = "text" /\ element.data.text # NoString
                                 /\ element.data.style # NoStyle
    THEN <<drawText(element, scale)>>
    ELSE <<>>

\* the body of sortedElements.forEach: dispatch on element.type
drawElement(element, scale) ==
    IF element.type = "sticker" THEN <<drawSticker(element, scale)>>
    ELSE IF element.type = "emoji" THEN <<drawEmoji(element, scale)>>
    ELSE IF element.type = "text" THEN <<drawText(element, scale)>>
    ELSE <<>>

RECURSIVE drawElements(_, _)
drawElements(sorted, scale) ==
    IF sorted = <<>> THEN <<>>
    ELSE drawElement(Head(sorted), scale) \o drawElements(Tail(sorted), scale)

\* const dpr = width / displayWidth || 1
dpr(width, displayWidth) == OrElse(jsDivide(width, displayWidth), Num(1))

\* ctx.drawImage(baseCanvas, 0, 0)
drawImage == [op |-> "drawImage", x |-> Num(0), y |-> Num(0)]

\* slip: elements.sort(...) without the copy sorts the caller's array
sortInPlace(elements) ==
    [caller |-> sortedElements(elements), sorted |-> sortedElements(elements)]

\* const sortedElements = [...elements].sort(...): the caller's array after
\* the statement, and the sorted copy
sortCopy(elements) ==
    [caller |-> elements, sorted |-> sortedElements(elements)]

\* slip: the strokes are drawn after the elements
exportImageStrokesOnTop(args) ==
    LET scale == dpr(args.width, args.displayWidth)
    IN  [scale |-> scale,
         ops |-> <<drawImage>>
                 \o drawElements(sortCopy(args.elements).sorted, scale)
                 \o (IF Len(args.strokes) > 0 THEN drawStrokes(args.strokes, scale)
                     ELSE <<>>),
         args |-> [args EXCEPT !.elements = sortCopy(args.elements).caller]]

\* exportImage up to toDataURL: the scale, the calls on the export canvas,
\* and the caller's objects as the call leaves them
exportImage(args) ==
    LET scale == dpr(args.width, args.displayWidth)
    IN  [scale |-> scale,
         ops |-> <<drawImage>>
                 \o (IF Len(args.strokes) > 0 THEN drawStrokes(args.strokes, scale)
                     ELSE <<>>)
                 \o drawElements(sortCopy(args.elements).sorted, scale),
         args |-> [args EXCEPT !.elements = sortCopy(args.elements).caller]]

\* the PNG encoding of a canvas on which ops were drawn
encodePNG(ops) == <<"image/png", ops>>

\* the pending promise of exportImage; dataURL was taken before it was made
pendingExport(ops) ==
    [state |-> "pending", dataURL |-> encodePNG(ops), blob |-> <<>>, error |-> ""]

\* slip: resolve({ dataURL, blob }) whatever blob is
toBlobCallbackAlwaysResolves(promise, blob) ==
    IF promise.state # "pending" THEN promise
    ELSE [promise EXCEPT !.state = "fulfilled", !.blob = blob]

\* (blob) => { if (blob) resolve({ dataURL, blob }) else reject(new Error(...)) }
\* on the promise; resolve and reject act on a pending promise only
toBlobCallback(promise, blob) ==
    IF promise.state # "pending" THEN promise
    ELSE IF blob # <<>> THEN [promise EXCEPT !.state = "fulfilled", !.blob = blob]
    ELSE [promise EXCEPT !.state = "rejected",
                         !.error = "Failed to create image blob"]

----------------------------------------------------------------------------
(* Export requests *)

Point(x, y) == [x |-> x, y |-> y]

\* strokes as DrawTool builds them ({color, size, points}); exportImage takes
\* any array, so strokes of 0 and 1 points and an unknown size are included
StrokePool ==
    {[color |-> "#FFFFFF", size |-> "small", points |-> <<>>],
     [color |-> "#FF3B30", size |-> "small", points |-> <<Point(Num(10), Num(10))>>],
     [color |-> "#FFFFFF", size |-> "medium",
      points |-> <<Point(Num(10), Num(20)), Point(Num(30), Num(40))>>],
     [color |-> "#FFCC00", size |-> "large",
      points |-> <<Point(Num(5), Num(5)), Point(Dec(15, 2), Num(9)),
                   Point(Num(20), Num(1))>>]}

StrokeArrays == UNION {[1 .. n -> StrokePool] : n \in 0 .. MaxStrokes}

\* a placed element {id, type, x, y, scale, rotation, data}
Element(id, type, x, y, d) ==
    [id |-> id, type |-> type, x |-> x, y |-> y, scale |-> Num(1), rotation |-> 0,
     data |-> d]

TextElement(id, x, style) ==
    Element(id, "text", x, Num(60), [NoData EXCEPT !.text = "hi", !.style = style])

ElementPool ==
    {Element("sticker-1", "sticker", Num(10), Num(20), [NoData EXCEPT !.stickerId = "star"]),
     [Element("sticker-2", "sticker", Num(30), Num(5), NoData)
        EXCEPT !.scale = Dec(3, 2), !.rotation = 90],
     Element("emoji-1", "emoji", Dec(45, 2), Num(7), [NoData EXCEPT !.emojiChar = "fire"]),
     [Element("emoji-2", "emoji", Num(8), Num(90), NoData) EXCEPT !.scale = Dec(1, 2)],
     TextElement("text-1", Num(50),
                 [NoStyle EXCEPT !.fontId = "bold", !.color = "#FF3B30",
                                 !.styleMode = "stroke"]),
     TextElement("text-2", Num(51),
                 [NoStyle EXCEPT !.color = "#FFFFFF", !.textAlign = "left",
                                 !.styleMode = "background"]),
     Element("gif-1", "gif", Num(1), Num(2), NoData)}

\* arrays of distinct placed elements, in every insertion order
ElementArrays ==
    {arr \in UNION {[1 .. n -> ElementPool] : n \in 0 .. MaxElements} :
        \A j, k \in DOMAIN arr : j # k => arr[j] # arr[k]}

StyleModes == {"background", "highlight", "stroke", "none", NoString}
\* colours of the TextEditor palette COLORS, and a style without a colour
TextColors == {"#FFFFFF", "#FFCC00", "#000000", "#FF3B30", "#C7C7CC", NoString}
TextStyles == {[NoStyle EXCEPT !.styleMode = m, !.color = c] :
                   m \in StyleModes, c \in TextColors}

\* baseCanvas.width: an image rendered 200 or 300 wide, and a canvas of width
\* 0; a canvas whose width was never set is 300 wide
Widths == {Num(0), Num(200), Num(300)}
\* displayWidth: EditorLayer passes canvasDimensions.width, which is 0 until
\* the base image has loaded; other callers may leave it out
DisplayWidths == {Undefined, Num(0), Num(100), Num(150)}

\* every insertion order of the elements, over a few stroke arrays
OrderRequests ==
    [width : {Num(300)}, displayWidth : {Num(150), Num(0)},
     strokes : {<<>>} \cup {arr \in StrokeArrays : Len(arr) = 1},
     elements : ElementArrays]
\* every width and display width, over every stroke array
ScaleRequests ==
    [width : Widths, displayWidth : DisplayWidths, strokes : StrokeArrays,
     elements : {arr \in ElementArrays : Len(arr) <= 1}]
\* one text element of every style mode and colour
TextRequests ==
    [width : {Num(200)}, displayWidth : {Num(100), Undefined}, strokes : {<<>>},
     elements : {<<TextElement("text-3", Num(52), style)>> : style \in TextStyles}
                \cup {<<Element("text-4", "text", Num(53), Num(61), NoData)>>}]

ExportRequests == OrderRequests \cup ScaleRequests \cup TextRequests

\* what toBlob hands to its callback: null, or the encoded canvas
Blobs(ops) == {<<>>, encodePNG(ops)}

InitExport ==
    /\ CameraIdle
    /\ DrawIdle
    /\ UiIdle
    /\ exportArgs \in ExportRequests
    /\ exportPhase = "idle"
    /\ exportScale = Undefined
    /\ exportOps = <<>>
    /\ exportPromise = NoPromise

\* exportImage({baseCanvas, strokes, elements, displayWidth}) up to its
\* return: every layer is drawn, the canvas is encoded, toBlob is started and
\* the promise is returned
ExportImage ==
    /\ exportPhase = "idle"
    /\ exportScale' = exportImage(exportArgs).scale
    /\ exportOps' = exportImage(exportArgs).ops
    /\ exportArgs' = exportImage(exportArgs).args
    /\ exportPromise' = pendingExport(exportImage(exportArgs).ops)
    /\ exportPhase' = "drawn"
    /\ UNCHANGED <<cameraVars, drawVars, uiVars>>

\* the browser calls the toBlob callback, once, with the blob or null
ToBlobCallback(blob) ==
    /\ exportPhase = "drawn"
    /\ exportPromise' = toBlobCallback(exportPromise, blob)
    /\ exportPhase' = "settled"
    /\ UNCHANGED <<exportArgs, exportScale, exportOps>>
    /\ UNCHANGED <<cameraVars, drawVars, uiVars>>

NextExport ==
    \/ ExportImage
    \/ \E blob \in Blobs(exportOps) : ToBlobCallback(blob)

ExportSpec == InitExport /\ [][NextExport]_vars

----------------------------------------------------------------------------
(* The drawing tool (DrawTool.jsx, src/unnamed/part_000) inside EditorLayer  *)
(*                                                                          *)
(* strokes is EditorLayer's state, which only DrawTool changes, through     *)
(* onStrokesChange = setStrokes.  Every handler is bound (on the canvas, on *)
(* window, on the toolbar) only while isActive.  A stroke is {color, size,  *)
(* points}; its id, a timestamp nothing reads, is left out.                 *)

\* most points a gesture collects
MaxPoints == 2
\* most strokes persisted before a further gesture starts
MaxDrawn == 2

\* DrawTool's own const BRUSH_SIZES = { small: 4, medium: 16 }
DRAWTOOL_BRUSH_SIZES == [small |-> 4, medium |-> 16]

\* the on-screen width of a stroke in DrawTool's redraw:
\* ctx.lineWidth = BRUSH_SIZES[stroke.size] || BRUSH_SIZES.small
drawToolLineWidth(size) ==
    IF size \in DOMAIN DRAWTOOL_BRUSH_SIZES THEN Num(DRAWTOOL_BRUSH_SIZES[size])
    ELSE Num(DRAWTOOL_BRUSH_SIZES.small)

\* pointer positions on the canvas, as getPosition returns them
Positions == {Point(Num(1), Num(1)), Point(Num(2), Num(3))}
\* the colours of the palette that are picked
PickedColors == {"#FFFFFF", "#FF3B30"}
\* e.touches.length of a touch event
TouchCounts == {1, 2}

InitDraw ==
    /\ CameraIdle
    /\ ExportIdle
    /\ DrawIdle
    /\ UiIdle

\* EditorLayer.handleToolPress('draw') when it is not debounced:
\* setIsDrawMode(true), setActiveTool('draw')
EnterDrawMode ==
    /\ ~isActive
    /\ isActive' = TRUE
    /\ activeTool' = "draw"
    /\ UNCHANGED <<isDrawing, currentStroke, strokes, strokeColor, brushSize,
                   exitPending>>
    /\ UNCHANGED <<isStickerDrawerOpen, isEditingText, activeTextId, lastActionRef,
                   now>>
    /\ UNCHANGED <<cameraVars, exportVars, appVars, layerVars, flowVars,
                   gestureVars>>

\* handleDrawStart(e) at position pos with touches fingers down
HandleDrawStart(pos, touches) ==
    /\ isActive
    /\ Len(strokes) < MaxDrawn
    /\ ~(touches > 1)
    /\ isDrawing' = TRUE
    /\ currentStroke' = <<[color |-> strokeColor, size |-> brushSize,
                           points |-> <<pos>>]>>
    /\ UNCHANGED <<isActive, strokes, strokeColor, brushSize, exitPending>>
    /\ UNCHANGED <<cameraVars, exportVars, uiVars>>

\* handleDrawMove(e)
HandleDrawMove(pos, touches) ==
    /\ isDrawing /\ isActive
    /\ IF touches > 1
       THEN /\ isDrawing' = FALSE
            /\ currentStroke' = <<>>
       ELSE /\ currentStroke # <<>> => Len(currentStroke[1].points) < MaxPoints
            /\ currentStroke' =
                  IF currentStroke = <<>> THEN <<>>
                  ELSE <<[currentStroke[1] EXCEPT !.points = Append(@, pos)]>>
            /\ UNCHANGED isDrawing
    /\ UNCHANGED <<isActive, strokes, strokeColor, brushSize, exitPending>>
    /\ UNCHANGED <<cameraVars, exportVars, uiVars>>

\* slip: a gesture of a single point is persisted too
HandleDrawEndKeepsTaps ==
    /\ isActive
    /\ IF ~isDrawing \/ currentStroke = <<>>
       THEN /\ isDrawing' = FALSE
            /\ UNCHANGED <<currentStroke, strokes>>
       ELSE /\ strokes' = strokes \o currentStroke
            /\ currentStroke' = <<>>
            /\ isDrawing' = FALSE
    /\ UNCHANGED <<isActive, strokeColor, brushSize, exitPending>>
    /\ UNCHANGED <<cameraVars, exportVars, uiVars>>

\* handleDrawEnd()
HandleDrawEnd ==
    /\ isActive
    /\ IF ~isDrawing \/ currentStroke = <<>>
       THEN /\ isDrawing' = FALSE
            /\ UNCHANGED <<currentStroke, strokes>>
       ELSE /\ strokes' = IF Len(currentStroke[1].points) >= 2
                          THEN strokes \o currentStroke
                          ELSE strokes
            /\ currentStroke' = <<>>
            /\ isDrawing' = FALSE
    /\ UNCHANGED <<isActive, strokeColor, brushSize, exitPending>>
    /\ UNCHANGED <<cameraVars, exportVars, uiVars>>

\* handleUndo()
HandleUndo ==
    /\ isActive
    /\ strokes' = IF Len(strokes) > 0 THEN SubSeq(strokes, 1, Len(strokes) - 1)
                  ELSE strokes
    /\ UNCHANGED <<isActive, isDrawing, currentStroke, strokeColor, brushSize,
                   exitPending>>
    /\ UNCHANGED <<cameraVars, exportVars, uiVars>>

\* handleClear()
HandleClear ==
    /\ isActive
    /\ strokes' = <<>>
    /\ UNCHANGED <<isActive, isDrawing, currentStroke, strokeColor, brushSize,
                   exitPending>>
    /\ UNCHANGED <<cameraVars, exportVars, uiVars>>

\* handleToggleBrushSize()
HandleToggleBrushSize ==
    /\ isActive
    /\ brushSize' = IF brushSize = "small" THEN "medium" ELSE "small"
    /\ UNCHANGED <<isActive, isDrawing, currentStroke, strokes, strokeColor,
                   exitPending>>
    /\ UNCHANGED <<cameraVars, exportVars, uiVars>>

\* a palette button: onClick={() => setStrokeColor(color)}
SetStrokeColor(color) ==
    /\ isActive
    /\ strokeColor' = color
    /\ UNCHANGED <<isActive, isDrawing, currentStroke, strokes, brushSize,
                   exitPending>>
    /\ UNCHANGED <<cameraVars, exportVars, uiVars>>

\* slip: Done resets the tool without committing the stroke in progress
HandleDoneDropsStroke ==
    /\ isActive
    /\ strokes' = strokes
    /\ currentStroke' = <<>>
    /\ isDrawing' = FALSE
    /\ strokeColor' = "#FFFFFF"
    /\ brushSize' = "small"
    /\ exitPending' = TRUE
    /\ UNCHANGED isActive
    /\ UNCHANGED <<cameraVars, exportVars, uiVars>>

\* handleDone(): commit the stroke in progress, reset, queue onExit
HandleDone ==
    /\ isActive
    /\ strokes' = IF currentStroke # <<>> /\ Len(currentStroke[1].points) >= 2
                  THEN strokes \o currentStroke
                  ELSE strokes
    /\ currentStroke' = <<>>
    /\ isDrawing' = FALSE
    /\ strokeColor' = "#FFFFFF"
    /\ brushSize' = "small"
    /\ exitPending' = TRUE
    /\ UNCHANGED isActive
    /\ UNCHANGED <<cameraVars, exportVars, uiVars>>

\* the timer of handleDone fires: onExit() is EditorLayer.handleExitDrawMode,
\* setIsDrawMode(false) and setActiveTool(null)
OnExit ==
    /\ exitPending
    /\ exitPending' = FALSE
    /\ isActive' = FALSE
    /\ activeTool' = NoTool
    /\ UNCHANGED <<isDrawing, currentStroke, strokes, strokeColor, brushSize>>
    /\ UNCHANGED <<isStickerDrawerOpen, isEditingText, activeTextId, lastActionRef,
                   now>>
    /\ UNCHANGED <<cameraVars, exportVars, appVars, layerVars, flowVars,
                   gestureVars>>

NextDraw ==
    \/ EnterDrawMode
    \/ \E pos \in Positions, touches \in TouchCounts : HandleDrawStart(pos, touches)
    \/ \E pos \in Positions, touches \in TouchCounts : HandleDrawMove(pos, touches)
    \/ HandleDrawEnd
    \/ HandleUndo
    \/ HandleClear
    \/ HandleToggleBrushSize
    \/ \E color \in PickedColors : SetStrokeColor(color)
    \/ HandleDone
    \/ OnExit

DrawSpec == InitDraw /\ [][NextDraw]_vars

----------------------------------------------------------------------------
(* App (src/unnamed/part_001), and the Done flow of EditorLayer              *)
(* (EditorLayer.jsx handleDone, ExportEngine.js exportAndShare, shareImage) *)
(*                                                                          *)
(* An async function runs up to its first pending await in the step that    *)
(* calls it, and from the settling of the promise it awaits to its next     *)
(* pending await in the step that settles it.  EditorLayer is rendered      *)
(* while mode is EDITOR and capturedImage is set; when it is unmounted its  *)
(* state and that of DrawTool are gone, a run of handleDone still in flight *)
(* goes on, and its state setters no longer have an effect.                 *)

\* a result object of shareImage; a property the object lacks is FALSE
shareResult(shared, cancelled, error, notSupported) ==
    [shared |-> shared, cancelled |-> cancelled, error |-> error,
     notSupported |-> notSupported]

\* navigator.canShare && navigator.canShare({ files: [...] })
canShareFiles(env) == env = "yes"

\* slip: a share sheet the user dismissed is reported as a failure
shareOutcomeAbortFails(settled) ==
    IF settled = "fulfilled" THEN shareResult(TRUE, FALSE, FALSE, FALSE)
    ELSE shareResult(FALSE, FALSE, TRUE, FALSE)

\* shareImage after await navigator.share(...): return { shared: true }, or
\* the catch block on the name of the error the share was rejected with
shareOutcome(settled) ==
    IF settled = "fulfilled" THEN shareResult(TRUE, FALSE, FALSE, FALSE)
    ELSE IF settled = "AbortError" THEN shareResult(FALSE, TRUE, FALSE, FALSE)
    ELSE shareResult(FALSE, FALSE, TRUE, FALSE)

\* return { shared: false, notSupported: true }
shareNotSupported == shareResult(FALSE, FALSE, FALSE, TRUE)

\* return { ...result, dataURL }
withDataURL(result, dataURL) ==
    [shared |-> result.shared, cancelled |-> result.cancelled,
     error |-> result.error, notSupported |-> result.notSupported,
     dataURL |-> dataURL]

\* slip: the share step runs whether or not the export produced a blob
exportAndShareIgnoresFailure(promise, env) ==
    IF canShareFiles(env)
    THEN [queried |-> TRUE, invoked |-> TRUE, awaiting |-> TRUE, thrown |-> "",
          result |-> <<>>]
    ELSE [queried |-> TRUE, invoked |-> FALSE, awaiting |-> FALSE, thrown |-> "",
          result |-> <<withDataURL(shareNotSupported, promise.dataURL)>>]

\* exportAndShare from the settling of exportImage's promise on: a rejection
\* leaves through the await; otherwise shareImage(blob, dataURL) queries the
\* capability and either calls navigator.share and awaits it, or returns the
\* notSupported object, which exportAndShare returns with the dataURL
exportAndShare(promise, env) ==
    IF promise.state = "rejected"
    THEN [queried |-> FALSE, invoked |-> FALSE, awaiting |-> FALSE,
          thrown |-> promise.error, result |-> <<>>]
    ELSE IF canShareFiles(env)
    THEN [queried |-> TRUE, invoked |-> TRUE, awaiting |-> TRUE, thrown |-> "",
          result |-> <<>>]
    ELSE [queried |-> TRUE, invoked |-> FALSE, awaiting |-> FALSE, thrown |-> "",
          result |-> <<withDataURL(shareNotSupported, promise.dataURL)>>]

\* slip: the parent is told about every result that is not notSupported
onDoneWantedUnlessUnsupported(result) == ~result.notSupported

\* handleDone after setExportResult(result): the notSupported branch returns
\* before onDone; otherwise onDone && (result.shared || result.cancelled)
onDoneWanted(result) ==
    IF result.notSupported THEN FALSE
    ELSE result.shared \/ result.cancelled

\* App.handleDone: setCapturedImage(null); setMode('CAMERA')
appHandleDone == [capturedImage |-> <<>>, mode |-> "CAMERA"]

\* App renders EditorLayer: mode === 'EDITOR' && capturedImage
EditorMounted == mode = "EDITOR" /\ capturedImage # <<>>

\* what captureFrame hands to onCapture: null or the data URL of a frame
CapturedFrames == {<<>>, <<"frame", 1>>, <<"frame", 2>>}
\* the size the loaded image is rendered at
RenderSizes == {[width |-> Num(300), height |-> Num(400)]}
\* what navigator.share settles with: fulfilled, or rejected with this name
ShareSettlements == {"fulfilled", "AbortError", "NotAllowedError"}
\* what the browser answers to the capability query
Browsers == {"absent", "no", "yes"}
\* the strokes and placed elements of the editor when Done is pressed
DoneStrokes == {<<>>} \cup {arr \in StrokeArrays :
                               Len(arr) = 1 /\ Len(arr[1].points) = 2}
DoneElements ==
    {<<>>,
     <<Element("sticker-1", "sticker", Num(10), Num(20),
               [NoData EXCEPT !.stickerId = "star"])>>,
     <<TextElement("text-2", Num(51),
                   [NoStyle EXCEPT !.color = "#FFFFFF", !.textAlign = "left",
                                   !.styleMode = "background"]),
       Element("emoji-1", "emoji", Dec(45, 2), Num(7),
               [NoData EXCEPT !.emojiChar = "fire"])>>}

\* EditorLayer is unmounted: its state, and DrawTool's, is that of a layer
\* not rendered; a run of handleDone in flight loses its component
EditorUnmounts(flow) ==
    /\ baseCanvas' = <<>>
    /\ canvasDimensions' = [width |-> Num(0), height |-> Num(0)]
    /\ placedElements' = <<>>
    /\ isExporting' = FALSE
    /\ exportResult' = <<>>
    /\ isActive' = FALSE
    /\ isDrawing' = FALSE
    /\ currentStroke' = <<>>
    /\ strokes' = <<>>
    /\ strokeColor' = "#FFFFFF"
    /\ brushSize' = "small"
    /\ exitPending' = FALSE
    /\ activeTool' = NoTool
    /\ isStickerDrawerOpen' = FALSE
    /\ isEditingText' = FALSE
    /\ activeTextId' = <<>>
    /\ lastActionRef' = 0
    /\ gestures' = <<>>
    /\ doneFlow' = [flow EXCEPT !.live = FALSE]

\* the editor with a captured frame, some strokes and elements placed, before
\* or after the base image has loaded, in a browser of each kind
InitDone ==
    /\ CameraIdle
    /\ ExportIdle
    /\ isActive = FALSE
    /\ isDrawing = FALSE
    /\ currentStroke = <<>>
    /\ strokes \in DoneStrokes
    /\ strokeColor = "#FFFFFF"
    /\ brushSize = "small"
    /\ exitPending = FALSE
    /\ mode = "EDITOR"
    /\ capturedImage = <<"frame", 1>>
    /\ showSettings = FALSE
    /\ toolPosition = "right"
    /\ \/ /\ baseCanvas = Num(300)
          /\ canvasDimensions = [width |-> Num(0), height |-> Num(0)]
       \/ \E size \in RenderSizes :
             /\ baseCanvas = size.width
             /\ canvasDimensions = size
    /\ placedElements \in DoneElements
    /\ isExporting = FALSE
    /\ exportResult = <<>>
    /\ doneFlow = NoFlow
    /\ canShare \in Browsers
    /\ ToolsIdle
    /\ touchPoints = <<>>
    /\ gestures = [k \in DOMAIN placedElements |-> NoGesture]

\* App.handleCapture(imageData), called by CameraLayer's shutter; a new
\* EditorLayer is rendered, its canvas 300 wide until the image has loaded
HandleCapture(frame) ==
    /\ mode = "CAMERA"
    /\ IF frame = <<>>
       THEN UNCHANGED <<mode, capturedImage, baseCanvas>>
       ELSE /\ capturedImage' = frame
            /\ mode' = "EDITOR"
            /\ baseCanvas' = Num(300)
    /\ UNCHANGED <<showSettings, toolPosition, canvasDimensions, placedElements,
                   isExporting, exportResult, flowVars>>
    /\ UNCHANGED <<cameraVars, exportVars, drawVars, toolVars, gestureVars>>

\* App.handleRetake without setCapturedImage(null)
HandleRetakeKeepsImage ==
    /\ EditorMounted
    /\ capturedImage' = capturedImage
    /\ mode' = "CAMERA"
    /\ EditorUnmounts(doneFlow)
    /\ UNCHANGED <<showSettings, toolPosition, canShare, now, touchPoints>>
    /\ UNCHANGED <<cameraVars, exportVars>>

\* App.handleRetake, bound to the two Retake buttons of EditorLayer
HandleRetake ==
    /\ EditorMounted
    /\ capturedImage' = <<>>
    /\ mode' = "CAMERA"
    /\ EditorUnmounts(doneFlow)
    /\ UNCHANGED <<showSettings, toolPosition, canShare, now, touchPoints>>
    /\ UNCHANGED <<cameraVars, exportVars>>

\* App.handleOpenSettings, bound to CameraLayer's settings button
HandleOpenSettings ==
    /\ mode = "CAMERA"
    /\ showSettings' = TRUE
    /\ UNCHANGED <<mode, capturedImage, toolPosition, layerVars, flowVars>>
    /\ UNCHANGED <<cameraVars, exportVars, drawVars, toolVars, gestureVars>>

\* App.handleCloseSettings, bound to the sheet's close control
HandleCloseSettings ==
    /\ showSettings
    /\ showSettings' = FALSE
    /\ UNCHANGED <<mode, capturedImage, toolPosition, layerVars, flowVars>>
    /\ UNCHANGED <<cameraVars, exportVars, drawVars, toolVars, gestureVars>>

\* App.handleToolPositionChange(position), called by the sheet
HandleToolPositionChange(position) ==
    /\ showSettings
    /\ toolPosition' = position
    /\ UNCHANGED <<mode, capturedImage, showSettings, layerVars, flowVars>>
    /\ UNCHANGED <<cameraVars, exportVars, drawVars, toolVars, gestureVars>>

\* img.onload of EditorLayer's effect: the canvas and canvasDimensions take
\* the rendered size
ImageOnload(size) ==
    /\ EditorMounted
    /\ canvasDimensions.width = Num(0)
    /\ baseCanvas' = size.width
    /\ canvasDimensions' = size
    /\ UNCHANGED <<appVars, placedElements, isExporting, exportResult, flowVars>>
    /\ UNCHANGED <<cameraVars, exportVars, drawVars, toolVars, gestureVars>>

\* EditorLayer.handleDone up to its await: the Done button (disabled while
\* isExporting) is pressed, setIsExporting(true), exportAndShare calls
\* exportImage, which draws every layer and starts toBlob.  One run is
\* followed at a time.
EditorHandleDone ==
    /\ EditorMounted
    /\ ~isExporting
    /\ doneFlow.pc = "idle"
    /\ IF baseCanvas = <<>>
       THEN UNCHANGED <<exportVars, isExporting, doneFlow>>
       ELSE LET args == [width |-> baseCanvas,
                         displayWidth |-> canvasDimensions.width,
                         strokes |-> strokes,
                         elements |-> placedElements]
            IN  /\ isExporting' = TRUE
                /\ exportArgs' = exportImage(args).args
                /\ exportScale' = exportImage(args).scale
                /\ exportOps' = exportImage(args).ops
                /\ exportPromise' = pendingExport(exportImage(args).ops)
                /\ exportPhase' = "drawn"
                /\ doneFlow' = [NoFlow EXCEPT !.pc = "exporting", !.live = TRUE]
    /\ UNCHANGED <<appVars, baseCanvas, canvasDimensions, placedElements,
                   exportResult, canShare>>
    /\ UNCHANGED <<cameraVars, drawVars, toolVars, gestureVars>>

\* handleDone's catch without the finally
DoneCatchesWithoutFinally(flow) ==
    /\ doneFlow' = [flow EXCEPT !.pc = "idle"]
    /\ isExporting' = isExporting
    /\ UNCHANGED <<appVars, baseCanvas, canvasDimensions, placedElements,
                   exportResult, canShare>>
    /\ UNCHANGED <<drawVars, toolVars, gestureVars>>

\* handleDone's catch and finally: console.error, setIsExporting(false)
DoneCatches(flow) ==
    /\ doneFlow' = [flow EXCEPT !.pc = "idle"]
    /\ isExporting' = IF flow.live THEN FALSE ELSE isExporting
    /\ UNCHANGED <<appVars, baseCanvas, canvasDimensions, placedElements,
                   exportResult, canShare>>
    /\ UNCHANGED <<drawVars, toolVars, gestureVars>>

\* handleDone from the return of exportAndShare: setExportResult(result),
\* alert and return when notSupported, onDone() (App.handleDone, after which
\* EditorLayer is no longer rendered) when shared or cancelled, and finally
\* setIsExporting(false)
DoneReturns(flow, result) ==
    LET ran == [flow EXCEPT !.pc = "idle", !.result = <<result>>,
                            !.alert = result.notSupported,
                            !.onDone = onDoneWanted(result)]
    IN  /\ IF onDoneWanted(result)
           THEN /\ capturedImage' = appHandleDone.capturedImage
                /\ mode' = appHandleDone.mode
                /\ EditorUnmounts(ran)
           ELSE /\ doneFlow' = ran
                /\ isExporting' = IF flow.live THEN FALSE ELSE isExporting
                /\ exportResult' = IF flow.live THEN <<result>> ELSE exportResult
                /\ UNCHANGED <<mode, capturedImage, baseCanvas, canvasDimensions,
                               placedElements>>
                /\ UNCHANGED <<drawVars, activeTool, isStickerDrawerOpen,
                               isEditingText, activeTextId, lastActionRef,
                               gestures>>
        /\ UNCHANGED <<showSettings, toolPosition, canShare, now, touchPoints>>

\* the browser calls the toBlob callback: exportImage's promise settles and
\* exportAndShare goes on to the share step, or handleDone catches
ExportSettles(blob) ==
    /\ doneFlow.pc = "exporting"
    /\ LET promise == toBlobCallback(exportPromise, blob)
           went == exportAndShare(promise, canShare)
           flow == [doneFlow EXCEPT !.queried = went.queried,
                                    !.invoked = went.invoked,
                                    !.thrown = went.thrown]
       IN  /\ exportPromise' = promise
           /\ exportPhase' = "settled"
           /\ IF went.awaiting
              THEN /\ doneFlow' = [flow EXCEPT !.pc = "sharing"]
                   /\ UNCHANGED <<appVars, layerVars, canShare>>
                   /\ UNCHANGED <<drawVars, toolVars, gestureVars>>
              ELSE IF went.result = <<>>
              THEN DoneCatches(flow)
              ELSE DoneReturns(flow, went.result[1])
    /\ UNCHANGED <<exportArgs, exportScale, exportOps>>
    /\ UNCHANGED cameraVars

\* navigator.share settles: shareImage returns its result object and
\* exportAndShare returns it with the dataURL
ShareSettles(settled) ==
    /\ doneFlow.pc = "sharing"
    /\ DoneReturns([doneFlow EXCEPT !.settled = settled],
                   withDataURL(shareOutcome(settled), exportPromise.dataURL))
    /\ UNCHANGED exportVars
    /\ UNCHANGED cameraVars

NextDone ==
    \/ \E frame \in CapturedFrames : HandleCapture(frame)
    \/ HandleRetake
    \/ HandleOpenSettings
    \/ HandleCloseSettings
    \/ \E position \in {"left", "right"} : HandleToolPositionChange(position)
    \/ \E size \in RenderSizes : ImageOnload(size)
    \/ EditorHandleDone
    \/ \E blob \in Blobs(exportOps) : ExportSettles(blob)
    \/ \E settled \in ShareSettlements : ShareSettles(settled)

DoneSpec == InitDone /\ [][NextDone]_vars

\* the browser calls the toBlob callback of every export it started, and the
\* share sheet is answered: the promises handleDone awaits settle
DoneSettlingSpec ==
    /\ DoneSpec
    /\ WF_vars(\E blob \in Blobs(exportOps) : ExportSettles(blob))
    /\ WF_vars(\E settled \in ShareSettlements : ShareSettles(settled))

----------------------------------------------------------------------------
(* Placed elements and their gestures (EditorLayer.jsx handlers,            *)
(* DraggableElement.jsx)                                                    *)
(*                                                                          *)
(* gestures[k] is the state of the DraggableElement rendered for            *)
(* placedElements[k].  Its touchstart handler is bound on the element,      *)
(* which is rendered only while it is not disabled; its move and end        *)
(* handlers are bound on window while isDragging or isScaling.  Fingers     *)
(* are followed (touch events); the mouse runs the same code with one       *)
(* pointer.  The id `${type}-${Date.now()}` is the pair <<type, now>>.      *)

\* most elements placed
MaxPlaced == 2
\* most elements placed when a finger is put down on one
MaxHeld == 1
\* most advances of the clock
MaxTicks == 1
\* most fingers down at once
MaxTouches == 2
\* how many drag spans an element gets away from where it was placed
MaxShift == 1

\* const ACTION_DEBOUNCE_MS = 150
ACTION_DEBOUNCE_MS == 150
\* const deleteZoneHeight = 118
deleteZoneHeight == 118
\* window.innerHeight of the device
innerHeight == 800

\* where two fingers can be: two points of one horizontal line
PinchPositions == {[x |-> 100, y |-> 100], [x |-> 112, y |-> 100]}
\* where a single finger is put down or moved to: a point above the delete
\* zone and a point inside it
DragPositions == {[x |-> 100, y |-> 100], [x |-> 100, y |-> 700]}
\* the stickers of the drawer, the texts and the style the TextEditor saves
Stickers == {[id |-> "star"]}
Texts == {"hi", "yo"}
SavedStyles == {[fontId |-> "classic", color |-> "#FFFFFF",
                 textAlign |-> "center", styleMode |-> NoString]}
\* the toolbar buttons that call handleToolPress
ToolButtons == {"text", "stickers", "draw"}

\* useState(false) of isEmojiPickerOpen: only handleToolPress('emoji') sets
\* it, and no button of EditorLayer calls that
isEmojiPickerOpen == FALSE

\* const isAnyModalOpen
isAnyModalOpen == isStickerDrawerOpen \/ isEmojiPickerOpen \/ isEditingText

\* const elementsInteractive (isDrawMode is DrawTool's isActive)
elementsInteractive == ~isActive /\ ~isAnyModalOpen /\ ~isExporting

\* Math.sqrt of a perfect square
sqrt(n) == CHOOSE r \in 0 .. n : r * r = n

\* getTouchDistance(touches)
getTouchDistance(t) ==
    LET dx == t[1].x - t[2].x
        dy == t[1].y - t[2].y
    IN  Num(sqrt(dx * dx + dy * dy))

\* getTouchAngle(touches), in degrees, of two points of a horizontal or
\* vertical line: Math.atan2(dy, dx) * (180 / Math.PI), atan2(0, 0) being 0
getTouchAngle(t) ==
    LET dx == t[2].x - t[1].x
        dy == t[2].y - t[1].y
    IN  IF dy = 0 THEN (IF dx < 0 THEN 180 ELSE 0)
        ELSE IF dy > 0 THEN 90 ELSE -90

\* Math.min(a, b) and Math.max(a, b): NaN if either argument is NaN
jsMin(a, b) == IF a = NaN \/ b = NaN THEN NaN ELSE IF Less(b, a) THEN b ELSE a
jsMax(a, b) == IF a = NaN \/ b = NaN THEN NaN ELSE IF Less(a, b) THEN b ELSE a

\* const scaleFactor = currentDistance / initialPinchDistanceRef.current
\* const newScale = Math.max(0.3, Math.min(3, initialScaleRef.current * scaleFactor))
newScale(initialScale, initialDistance, currentDistance) ==
    jsMax(Dec(3, 10),
          jsMin(Num(3),
                jsTimes(initialScale, jsDivide(currentDistance, initialDistance))))

\* handleDragStart(e) of the element's DraggableElement, e.touches being t
handleDragStart(g, element, t, disabled) ==
    IF disabled THEN g
    ELSE IF Len(t) = 2
    THEN [g EXCEPT !.isScaling = TRUE,
                   !.isDragging = FALSE,
                   !.initialPinchDistanceRef = getTouchDistance(t),
                   !.initialScaleRef = OrElse(element.scale, Num(1)),
                   !.initialAngleRef = getTouchAngle(t),
                   !.initialRotationRef = element.rotation]
    ELSE [g EXCEPT !.isDragging = TRUE,
                   !.isScaling = FALSE,
                   !.hasDraggedRef = FALSE,
                   !.dragStartRef = t[1],
                   !.elementStartRef = [x |-> element.x, y |-> element.y]]

\* handleDragMove(e): the new state and refs, and the argument of onUpdate
\* (<<>> when onUpdate is not called)
handleDragMove(g, t) ==
    IF g.isScaling /\ Len(t) = 2
    THEN [gesture |-> g,
          updates |-> <<[scale |-> newScale(g.initialScaleRef,
                                            g.initialPinchDistanceRef,
                                            getTouchDistance(t)),
                         rotation |-> g.initialRotationRef
                                      + (getTouchAngle(t) - g.initialAngleRef)]>>]
    ELSE IF ~g.isDragging
    THEN [gesture |-> g, updates |-> <<>>]
    ELSE LET deltaX == t[1].x - g.dragStartRef.x
             deltaY == t[1].y - g.dragStartRef.y
         IN  [gesture |->
                 [g EXCEPT !.hasDraggedRef = IF Abs(deltaX) > 5 \/ Abs(deltaY) > 5
                                             THEN TRUE ELSE @,
                           !.isOverDelete = t[1].y > innerHeight - deleteZoneHeight],
              updates |-> <<[x |-> Plus(g.elementStartRef.x, Num(deltaX)),
                             y |-> Plus(g.elementStartRef.y, Num(deltaY))]>>]

\* handleDragEnd(): the new state, and whether onRemove or onTap is called
\* (onTap is passed for text elements only)
handleDragEnd(g, element) ==
    IF g.isScaling
    THEN [gesture |-> [g EXCEPT !.isScaling = FALSE], removes |-> FALSE,
          taps |-> FALSE]
    ELSE [gesture |-> [g EXCEPT !.isDragging = FALSE, !.isOverDelete = FALSE],
          removes |-> g.isOverDelete,
          taps |-> ~g.isOverDelete /\ ~g.hasDraggedRef /\ element.type = "text"]

\* { ...el, ...updates }
merged(el, updates) ==
    [f \in DOMAIN el |-> IF f \in DOMAIN updates THEN updates[f] ELSE el[f]]

\* updateElement(id, updates): prev.map(el => el.id === id ? {...} : el)
updateElement(elements, id, updates) ==
    [k \in DOMAIN elements |->
        IF elements[k].id = id THEN merged(elements[k], updates) ELSE elements[k]]

\* the DraggableElement has its listeners on window
Listening(g) == g.isDragging \/ g.isScaling

\* a touchmove on window: handleDragMove of every listening element, from
\* the k-th on, each onUpdate applied to the elements in turn
RECURSIVE moved(_, _, _, _)
moved(elements, gs, t, k) ==
    IF k > Len(gs) THEN [elements |-> elements, gestures |-> gs]
    ELSE IF ~Listening(gs[k]) THEN moved(elements, gs, t, k + 1)
    ELSE LET step == handleDragMove(gs[k], t)
             next == IF step.updates = <<>> THEN elements
                     ELSE updateElement(elements, elements[k].id, step.updates[1])
         IN  moved(next, [gs EXCEPT ![k] = step.gesture], t, k + 1)

\* the placed element and its two touches at a first and at a later moment
newElement(type, d) ==
    [id |-> <<type, now>>, type |-> type,
     x |-> jsDivide(canvasDimensions.width, Num(2)),
     y |-> jsDivide(canvasDimensions.height, Num(2)),
     scale |-> Num(1), rotation |-> 0, data |-> d]

\* the elements stay within MaxShift drag spans (of 600 px) of the centre of
\* the canvas
InReach(elements) ==
    \A k \in DOMAIN elements :
        LET el == elements[k]
            cx == jsDivide(canvasDimensions.width, Num(2))
            cy == jsDivide(canvasDimensions.height, Num(2))
        IN  /\ Abs(Minus(el.x, cx)[1]) <= 600 * MaxShift
            /\ Abs(Minus(el.y, cy)[1]) <= 600 * MaxShift

\* the fingers after the i-th was put down or moved: a single finger is at
\* a drag position; two fingers are at the pinch positions, the first not
\* to the right of the second
Placed(t, i) ==
    IF Len(t) = 1 THEN t[i] \in DragPositions
    ELSE /\ \A j \in DOMAIN t : t[j] \in PinchPositions
         /\ \A j \in DOMAIN t : j < Len(t) => t[j].x <= t[j + 1].x

\* the editor just after the base image has loaded
InitElements ==
    /\ CameraIdle
    /\ ExportIdle
    /\ DrawIdle
    /\ mode = "EDITOR"
    /\ capturedImage = <<"frame", 1>>
    /\ showSettings = FALSE
    /\ toolPosition = "right"
    /\ baseCanvas = Num(300)
    /\ canvasDimensions = [width |-> Num(300), height |-> Num(400)]
    /\ placedElements = <<>>
    /\ isExporting = FALSE
    /\ exportResult = <<>>
    /\ FlowIdle
    /\ ToolsIdle
    /\ GesturesIdle

\* time passes
Tick ==
    /\ now < 1000 + MaxTicks * ACTION_DEBOUNCE_MS
    /\ now' = now + ACTION_DEBOUNCE_MS
    /\ UNCHANGED <<activeTool, isStickerDrawerOpen, isEditingText, activeTextId,
                   lastActionRef>>
    /\ UNCHANGED <<cameraVars, exportVars, drawVars, appVars, layerVars, flowVars,
                   gestureVars>>

\* enterTextEditMode()
EnterTextEditMode ==
    /\ activeTextId' = <<>>
    /\ isEditingText' = TRUE
    /\ activeTool' = "text"

\* handleToolPress(tool), bound to the toolbar, which is rendered while
\* !isDrawMode
HandleToolPress(tool) ==
    /\ EditorMounted
    /\ ~isActive
    /\ IF now - lastActionRef < ACTION_DEBOUNCE_MS
       THEN UNCHANGED <<toolVars, isActive>>
       ELSE /\ lastActionRef' = now
            /\ IF \/ isEditingText /\ tool # "text"
                  \/ tool = "stickers" /\ isStickerDrawerOpen
                  \/ tool = "emoji" /\ isEmojiPickerOpen
                  \/ tool = "draw" /\ isActive
               THEN UNCHANGED <<activeTool, isStickerDrawerOpen, isEditingText,
                                activeTextId, isActive>>
               ELSE IF tool = "text"
               THEN /\ EnterTextEditMode
                    /\ UNCHANGED <<isStickerDrawerOpen, isActive>>
               ELSE IF tool = "stickers"
               THEN /\ isStickerDrawerOpen' = TRUE
                    /\ activeTool' = NoTool
                    /\ UNCHANGED <<isEditingText, activeTextId, isActive>>
               ELSE IF tool = "draw"
               THEN /\ isActive' = TRUE
                    /\ activeTool' = "draw"
                    /\ UNCHANGED <<isStickerDrawerOpen, isEditingText, activeTextId>>
               ELSE /\ activeTool' = IF activeTool = tool THEN NoTool ELSE tool
                    /\ UNCHANGED <<isStickerDrawerOpen, isEditingText, activeTextId,
                                   isActive>>
            /\ UNCHANGED now
    /\ UNCHANGED <<isDrawing, currentStroke, strokes, strokeColor, brushSize,
                   exitPending>>
    /\ UNCHANGED <<cameraVars, exportVars, appVars, layerVars, flowVars, gestureVars>>

\* handleCanvasTap(e) without the guard on the sticker drawer
HandleCanvasTapThroughDrawer(onElement) ==
    /\ EditorMounted
    /\ onElement => placedElements # <<>> /\ elementsInteractive
    /\ IF \/ isEditingText
          \/ isActive
          \/ isEmojiPickerOpen
          \/ activeTool # NoTool /\ activeTool # "text"
          \/ onElement
       THEN UNCHANGED <<activeTool, isEditingText, activeTextId>>
       ELSE EnterTextEditMode
    /\ UNCHANGED <<isStickerDrawerOpen, lastActionRef, now>>
    /\ UNCHANGED <<cameraVars, exportVars, drawVars, appVars, layerVars, flowVars,
                   gestureVars>>

\* handleCanvasTap(e): a click in the canvas container, on an element or not
HandleCanvasTap(onElement) ==
    /\ EditorMounted
    /\ onElement => placedElements # <<>> /\ elementsInteractive
    /\ IF \/ isEditingText
          \/ isActive
          \/ isStickerDrawerOpen
          \/ isEmojiPickerOpen
          \/ activeTool # NoTool /\ activeTool # "text"
          \/ onElement
       THEN UNCHANGED <<activeTool, isEditingText, activeTextId>>
       ELSE EnterTextEditMode
    /\ UNCHANGED <<isStickerDrawerOpen, lastActionRef, now>>
    /\ UNCHANGED <<cameraVars, exportVars, drawVars, appVars, layerVars, flowVars,
                   gestureVars>>

\* handleTextSave(text, style), the onSave of the TextEditor
HandleTextSave(text, style) ==
    /\ EditorMounted
    /\ isEditingText
    /\ IF activeTextId # <<>>
       THEN /\ placedElements' =
                  [k \in DOMAIN placedElements |->
                      IF placedElements[k].id = activeTextId
                      THEN [placedElements[k] EXCEPT !.data.text = text,
                                                     !.data.style = style]
                      ELSE placedElements[k]]
            /\ UNCHANGED gestures
       ELSE /\ Len(placedElements) < MaxPlaced
            /\ placedElements' =
                  Append(placedElements,
                         newElement("text", [NoData EXCEPT !.text = text,
                                                           !.style = style]))
            /\ gestures' = Append(gestures, NoGesture)
    /\ isEditingText' = FALSE
    /\ activeTextId' = <<>>
    /\ UNCHANGED <<activeTool, isStickerDrawerOpen, lastActionRef, now>>
    /\ UNCHANGED <<baseCanvas, canvasDimensions, isExporting, exportResult,
                   touchPoints>>
    /\ UNCHANGED <<cameraVars, exportVars, drawVars, appVars, flowVars>>

\* handleTextCancel(), the onCancel of the TextEditor
HandleTextCancel ==
    /\ EditorMounted
    /\ isEditingText
    /\ isEditingText' = FALSE
    /\ activeTextId' = <<>>
    /\ UNCHANGED <<activeTool, isStickerDrawerOpen, lastActionRef, now>>
    /\ UNCHANGED <<cameraVars, exportVars, drawVars, appVars, layerVars, flowVars,
                   gestureVars>>

\* handleAddSticker(sticker), the onSelect of the open StickerDrawer
HandleAddSticker(sticker) ==
    /\ EditorMounted
    /\ isStickerDrawerOpen
    /\ Len(placedElements) < MaxPlaced
    /\ placedElements' =
          Append(placedElements,
                 newElement("sticker", [NoData EXCEPT !.stickerId = sticker.id]))
    /\ gestures' = Append(gestures, NoGesture)
    /\ UNCHANGED <<baseCanvas, canvasDimensions, isExporting, exportResult,
                   touchPoints>>
    /\ UNCHANGED <<cameraVars, exportVars, drawVars, appVars, flowVars, toolVars>>

\* the onClose of the StickerDrawer: setIsStickerDrawerOpen(false)
CloseStickerDrawer ==
    /\ EditorMounted
    /\ isStickerDrawerOpen
    /\ isStickerDrawerOpen' = FALSE
    /\ UNCHANGED <<activeTool, isEditingText, activeTextId, lastActionRef, now>>
    /\ UNCHANGED <<cameraVars, exportVars, drawVars, appVars, layerVars, flowVars,
                   gestureVars>>

\* touchstart on the k-th element: a finger comes down at pos
TouchStart(k, pos) ==
    /\ EditorMounted
    /\ elementsInteractive
    /\ k \in DOMAIN placedElements
    /\ Len(placedElements) <= MaxHeld
    /\ Len(touchPoints) < MaxTouches
    /\ Placed(Append(touchPoints, pos), Len(touchPoints) + 1)
    /\ touchPoints' = Append(touchPoints, pos)
    /\ gestures' = [gestures EXCEPT ![k] =
                       handleDragStart(@, placedElements[k], touchPoints',
                                       ~elementsInteractive)]
    /\ UNCHANGED <<cameraVars, exportVars, drawVars, appVars, layerVars, flowVars,
                   toolVars>>

\* touchmove on window: the i-th finger moves to pos
TouchMove(i, pos) ==
    /\ EditorMounted
    /\ i \in DOMAIN touchPoints
    /\ pos # touchPoints[i]
    /\ touchPoints' = [touchPoints EXCEPT ![i] = pos]
    /\ Placed(touchPoints', i)
    /\ LET after == moved(placedElements, gestures, touchPoints', 1)
       IN  /\ InReach(after.elements)
           /\ placedElements' = after.elements
           /\ gestures' = after.gestures
    /\ UNCHANGED <<baseCanvas, canvasDimensions, isExporting, exportResult>>
    /\ UNCHANGED <<cameraVars, exportVars, drawVars, appVars, flowVars, toolVars>>

\* touchend on window: the i-th finger is lifted; handleDragEnd of every
\* listening element, with removeElement(id) for its onRemove and
\* handleTextElementTap(element) for its onTap
TouchEnd(i) ==
    /\ EditorMounted
    /\ i \in DOMAIN touchPoints
    /\ touchPoints' = [j \in 1 .. (Len(touchPoints) - 1) |->
                          IF j < i THEN touchPoints[j] ELSE touchPoints[j + 1]]
    /\ LET ended == [k \in DOMAIN gestures |->
                        IF Listening(gestures[k])
                        THEN handleDragEnd(gestures[k], placedElements[k])
                        ELSE [gesture |-> gestures[k], removes |-> FALSE,
                              taps |-> FALSE]]
           removed == {placedElements[k].id : k \in {j \in DOMAIN ended :
                                                         ended[j].removes}}
           tapped == {k \in DOMAIN ended : ended[k].taps}
           kept == {k \in DOMAIN placedElements :
                        placedElements[k].id \notin removed}
           place(n) == CHOOSE k \in kept :
                           Cardinality({j \in kept : j <= k}) = n
       IN  /\ placedElements' = [n \in 1 .. Cardinality(kept) |->
                                    placedElements[place(n)]]
           /\ gestures' = [n \in 1 .. Cardinality(kept) |-> ended[place(n)].gesture]
           /\ IF tapped = {}
              THEN UNCHANGED <<isEditingText, activeTextId>>
              ELSE /\ isEditingText' = TRUE
                   /\ activeTextId' =
                         placedElements[CHOOSE k \in tapped :
                                            \A j \in tapped : j <= k].id
    /\ UNCHANGED <<activeTool, isStickerDrawerOpen, lastActionRef, now>>
    /\ UNCHANGED <<baseCanvas, canvasDimensions, isExporting, exportResult>>
    /\ UNCHANGED <<cameraVars, exportVars, drawVars, appVars, flowVars>>

NextElements ==
    \/ Tick
    \/ \E tool \in ToolButtons : HandleToolPress(tool)
    \/ HandleDone
    \/ OnExit
    \/ \E onElement \in BOOLEAN : HandleCanvasTap(onElement)
    \/ \E text \in Texts, style \in SavedStyles : HandleTextSave(text, style)
    \/ HandleTextCancel
    \/ \E sticker \in Stickers : HandleAddSticker(sticker)
    \/ CloseStickerDrawer
    \/ \E k \in 1 .. MaxPlaced, pos \in DragPositions \cup PinchPositions :
          TouchStart(k, pos)
    \/ \E i \in 1 .. MaxTouches, pos \in DragPositions \cup PinchPositions :
          TouchMove(i, pos)
    \/ \E i \in 1 .. MaxTouches : TouchEnd(i)

ElementSpec == InitElements /\ [][NextElements]_vars

----------------------------------------------------------------------------
(* CameraLayer: the camera streams, the flash and the shutter                *)
(* (useCamera.js initCamera, flipCamera, cycleFlash, applyFlash,             *)
(* captureFrame and the effects; CameraLayer.jsx handleShutter)              *)
(*                                                                          *)
(* The handlers are operators on the record Camera of the state they read   *)
(* and write.  An async function runs up to its first pending await; what   *)
(* follows the await runs in the step that settles the awaited promise,     *)
(* with the state values its closure captured and the current refs.  An     *)
(* await of a promise that is already settled is not a pause: no event      *)
(* comes between.  The setters of an unmounted component do nothing.        *)

\* most getUserMedia calls
MaxRequests == 2
\* most applyConstraints calls not yet settled
MaxFlashOps == 2
\* most flash-off timers not yet fired
MaxTimers == 1
\* most runs of handleShutter that get past its guard
MaxShots == 2

\* const FLASH_MODES = ['off', 'on', 'auto', 'torch']
FLASH_MODES == <<"off", "on", "auto", "torch">>

\* the video frames the shutter is pressed on
ShutterFrames == {<<200, 100, 50, 255>>}

\* the state the handlers of CameraLayer and useCamera read and write
Camera ==
    [mounted |-> mounted, facingMode |-> facingMode,
     selectedFilter |-> selectedFilter,
     shot |-> [video |-> video, usedFilter |-> usedFilter, drawn |-> drawn,
               canvas |-> canvas, imageData |-> imageData,
               filterFault |-> filterFault, dataUrl |-> dataUrl],
     mediaDevices |-> mediaDevices, requests |-> requests,
     streamRef |-> streamRef, isReady |-> isReady, cameraError |-> cameraError,
     flashSupported |-> flashSupported, flashMode |-> flashMode,
     flashOps |-> flashOps, offTimers |-> offTimers,
     isCapturing |-> isCapturing, shots |-> shots, captured |-> captured,
     mode |-> mode, capturedImage |-> capturedImage, baseCanvas |-> baseCanvas]

\* a getUserMedia call that is pending; once granted it is a stream, with
\* tracks that run or are stopped, the play() of the video it was attached
\* to, whether its video track has a torch and whether that torch is lit
NewRequest(facing) ==
    [facing |-> facing, state |-> "pending", tracks |-> "none", play |-> "none",
     cap |-> FALSE, torch |-> FALSE]

\* streamRef.current.getTracks().forEach(track => track.stop()), if
\* streamRef.current is set
stopTracks(reqs, ref) ==
    IF ref = 0 THEN reqs
    ELSE [reqs EXCEPT ![ref].tracks = "stopped", ![ref].torch = FALSE]

\* initCamera stopping no stream before it asks for the next
initCameraKeepsStream(h, facing) ==
    IF ~h.mediaDevices
    THEN [h EXCEPT !.cameraError = "Camera access requires HTTPS",
                   !.isReady = FALSE]
    ELSE [h EXCEPT !.requests = Append(@, NewRequest(facing))]

\* initCamera() of a render with this facingMode, up to
\* await navigator.mediaDevices.getUserMedia(constraints)
initCamera(h, facing) ==
    IF ~h.mediaDevices
    THEN [h EXCEPT !.cameraError = "Camera access requires HTTPS",
                   !.isReady = FALSE]
    ELSE [h EXCEPT !.requests = Append(stopTracks(@, h.streamRef),
                                       NewRequest(facing))]

\* applyFlash(flashMode), of a render with this flashSupported, reaches
\* trackRef.current.applyConstraints
Flashes(h, supported) == h.streamRef # 0 /\ supported

\* applyFlash(flashMode) up to await trackRef.current.applyConstraints;
\* awaitedBy is the captureFrame call that awaits it (<<>> for none)
applyFlash(h, m, supported, awaitedBy) ==
    IF ~Flashes(h, supported) THEN h
    ELSE [h EXCEPT !.flashOps =
             Append(@, [track |-> h.streamRef, torch |-> m \in {"torch", "on"},
                        awaitedBy |-> awaitedBy])]

\* the effect on [flashMode, applyFlash]
flashEffect(h) ==
    IF h.flashMode = "torch" THEN applyFlash(h, "torch", h.flashSupported, <<>>)
    ELSE IF h.flashMode = "off" THEN applyFlash(h, "off", h.flashSupported, <<>>)
    ELSE h

\* the first render: the refs are attached, the flash effect and the
\* initCamera effect run
mount(h) == initCamera(flashEffect([h EXCEPT !.mounted = TRUE]), h.facingMode)

\* the cleanup effect; the state of the component is gone
cleanup(h) ==
    [h EXCEPT !.requests = stopTracks(@, h.streamRef),
              !.mounted = FALSE,
              !.isReady = FALSE,
              !.cameraError = "",
              !.flashSupported = FALSE,
              !.flashMode = "off",
              !.isCapturing = FALSE]

\* flipCamera() and the effect on [initCamera]
flipCamera(h) ==
    LET facing == IF h.facingMode = "environment" THEN "user" ELSE "environment"
    IN  initCamera([h EXCEPT !.facingMode = facing], facing)

\* cycleFlash() and the flash effect
cycleFlash(h) ==
    LET currentIndex == CHOOSE k \in DOMAIN FLASH_MODES : FLASH_MODES[k] = h.flashMode
        nextIndex == (currentIndex % Len(FLASH_MODES)) + 1
    IN  flashEffect([h EXCEPT !.flashMode = FLASH_MODES[nextIndex]])

\* setFlashSupported(v): a change makes a new applyFlash, so the flash effect
\* runs again
setFlashSupported(h, v) ==
    IF ~h.mounted \/ h.flashSupported = v THEN h
    ELSE flashEffect([h EXCEPT !.flashSupported = v])

\* initCamera from the resolution of getUserMedia to await video.play();
\* cap is capabilities.torch of the stream's video track
getUserMediaResolves(h, i, cap) ==
    setFlashSupported(
        [h EXCEPT !.streamRef = i,
                  !.requests[i].state = "granted",
                  !.requests[i].tracks = "running",
                  !.requests[i].cap = cap,
                  !.requests[i].play = IF h.mounted THEN "pending" ELSE "none"],
        cap)

\* initCamera's catch after getUserMedia rejects
getUserMediaRejects(h, i) ==
    [h EXCEPT !.requests[i].state = "denied",
              !.cameraError = IF h.mounted THEN "NotAllowedError" ELSE @,
              !.isReady = IF h.mounted THEN FALSE ELSE @]

\* initCamera after video.play() settles: setIsReady(true), setError(null),
\* or the catch
playSettles(h, i, ok) ==
    [h EXCEPT !.requests[i].play = "done",
              !.isReady = IF h.mounted THEN ok ELSE @,
              !.cameraError = IF ~h.mounted THEN @
                              ELSE IF ok THEN "" ELSE "AbortError"]

\* onCapture(imageData): App.handleCapture, after which CameraLayer is no
\* longer rendered
onCapture(h, img) ==
    LET app == [h EXCEPT !.captured = Append(@, img),
                         !.capturedImage = img,
                         !.mode = "EDITOR",
                         !.baseCanvas = Num(300)]
    IN  IF img = Null THEN [h EXCEPT !.captured = Append(@, img)]
        ELSE IF h.mounted THEN cleanup(app) ELSE app

\* handleShutter from the return of captureFrame, calling onCapture whatever
\* it returned
shutterGotUnchecked(h, img) ==
    [onCapture(h, img) EXCEPT !.isCapturing = FALSE]

\* handleShutter from the return of captureFrame: onCapture if an image came
\* back, and finally setIsCapturing(false)
shutterGot(h, img) ==
    [(IF img # Null THEN onCapture(h, img) ELSE h) EXCEPT !.isCapturing = FALSE]

\* captureFrame throws; handleShutter's finally
captureThrows(h) == [h EXCEPT !.isCapturing = FALSE]

\* captureFrame after the flash: Steps 1 to 3 on the frame, out being the
\* outcome of the filter step, the flash-off timer, return dataUrl
captureReturns(h, closure, frame, out) ==
    LET taken == [video |-> frame,
                  usedFilter |-> closure.selectedFilter,
                  drawn |-> drawFrame(frame, closure.facingMode),
                  canvas |-> out.canvas,
                  imageData |-> out.imageData,
                  filterFault |-> out.fault,
                  dataUrl |-> toDataURL(out.canvas)]
        timed == IF closure.flashMode \in {"on", "auto"}
                 THEN [h EXCEPT !.shot = taken,
                                !.offTimers =
                                    Append(@, [flashSupported |->
                                                  closure.flashSupported])]
                 ELSE [h EXCEPT !.shot = taken]
    IN  shutterGot(timed, taken.dataUrl)

\* how a captureFrame call past its flash can end: it throws (<<>>), or it
\* draws a frame and the filter step ends in one of its outcomes
CaptureOutcomes(closure) ==
    {<<>>} \cup
    UNION {{<<frame, out>> :
               out \in filterStep(drawFrame(frame, closure.facingMode),
                                  closure.selectedFilter)} :
           frame \in ShutterFrames}

captureEnds(h, closure, outcome) ==
    IF outcome = <<>> THEN captureThrows(h)
    ELSE captureReturns(h, closure, outcome[1], outcome[2])

\* handleShutter without its guard on isCapturing
handleShutterUnguarded(h) ==
    LET closure == [facingMode |-> h.facingMode,
                    selectedFilter |-> h.selectedFilter,
                    flashMode |-> h.flashMode,
                    flashSupported |-> h.flashSupported]
        began == [h EXCEPT !.isCapturing = TRUE, !.shots = @ + 1]
    IN  IF ~h.mounted
        THEN [camera |-> shutterGot(began, Null), continues |-> <<>>]
        ELSE IF h.flashMode \in {"on", "auto"} /\ Flashes(h, h.flashSupported)
        THEN [camera |-> applyFlash(began, "on", h.flashSupported, <<closure>>),
              continues |-> <<>>]
        ELSE [camera |-> began, continues |-> <<closure>>]

\* handleShutter() and the captureFrame() it calls, up to the first pending
\* await: the state then, and the captureFrame call that goes on at once
\* (<<>> when handleShutter returned or captureFrame awaits the flash)
handleShutter(h) ==
    IF h.isCapturing THEN [camera |-> h, continues |-> <<>>]
    ELSE LET closure == [facingMode |-> h.facingMode,
                         selectedFilter |-> h.selectedFilter,
                         flashMode |-> h.flashMode,
                         flashSupported |-> h.flashSupported]
             began == [h EXCEPT !.isCapturing = TRUE, !.shots = @ + 1]
         IN  IF ~h.mounted
             THEN [camera |-> shutterGot(began, Null), continues |-> <<>>]
             ELSE IF h.flashMode \in {"on", "auto"} /\ Flashes(h, h.flashSupported)
             THEN [camera |-> applyFlash(began, "on", h.flashSupported,
                                         <<closure>>),
                   continues |-> <<>>]
             ELSE [camera |-> began, continues |-> <<closure>>]

\* the oldest applyConstraints call settles: the torch of its track is set if
\* the track runs and has one, the call is rejected otherwise
applyConstraintsSettles(h) ==
    LET op == Head(h.flashOps)
        track == h.requests[op.track]
    IN  [h EXCEPT !.flashOps = Tail(@),
                  !.requests[op.track].torch =
                      IF track.tracks = "running" /\ track.cap THEN op.torch ELSE @]

\* the bounds
InBounds(h) ==
    /\ Len(h.requests) <= MaxRequests
    /\ Len(h.flashOps) <= MaxFlashOps
    /\ Len(h.offTimers) <= MaxTimers
    /\ h.shots <= MaxShots

\* the state becomes h; nothing else changes
Becomes(h) ==
    /\ InBounds(h)
    /\ mounted' = h.mounted
    /\ facingMode' = h.facingMode
    /\ selectedFilter' = h.selectedFilter
    /\ video' = h.shot.video
    /\ usedFilter' = h.shot.usedFilter
    /\ drawn' = h.shot.drawn
    /\ canvas' = h.shot.canvas
    /\ imageData' = h.shot.imageData
    /\ filterFault' = h.shot.filterFault
    /\ dataUrl' = h.shot.dataUrl
    /\ mediaDevices' = h.mediaDevices
    /\ requests' = h.requests
    /\ streamRef' = h.streamRef
    /\ isReady' = h.isReady
    /\ cameraError' = h.cameraError
    /\ flashSupported' = h.flashSupported
    /\ flashMode' = h.flashMode
    /\ flashOps' = h.flashOps
    /\ offTimers' = h.offTimers
    /\ isCapturing' = h.isCapturing
    /\ shots' = h.shots
    /\ captured' = h.captured
    /\ mode' = h.mode
    /\ capturedImage' = h.capturedImage
    /\ baseCanvas' = h.baseCanvas
    /\ UNCHANGED <<callVars, exportVars, drawVars, flowVars, toolVars, gestureVars>>
    /\ UNCHANGED <<showSettings, toolPosition, canvasDimensions, placedElements,
                   isExporting, exportResult>>

\* the app as it starts: the camera mode, before CameraLayer has rendered,
\* in a browser with or without the camera API
InitCameraLayer ==
    /\ NoCall
    /\ HookIdle
    /\ mediaDevices \in BOOLEAN
    /\ DeviceAtRest
    /\ EditorIdle

\* App renders CameraLayer for the first time
MountCamera ==
    /\ ~mounted
    /\ mode = "CAMERA"
    /\ requests = <<>>
    /\ cameraError = ""
    /\ Becomes(mount(Camera))

\* handleFlip, bound to the Flip Camera button
HandleFlip ==
    /\ mounted
    /\ Becomes(flipCamera(Camera))

\* handleFlashCycle, bound to the flash button
HandleFlashCycle ==
    /\ mounted
    /\ Becomes(cycleFlash(Camera))

\* handleShutter, bound to the shutter button, which is disabled while
\* !isReady
HandleShutter ==
    /\ mounted
    /\ isReady
    /\ LET ran == handleShutter(Camera)
       IN  IF ran.continues = <<>>
           THEN Becomes(ran.camera)
           ELSE \E outcome \in CaptureOutcomes(ran.continues[1]) :
                   Becomes(captureEnds(ran.camera, ran.continues[1], outcome))

\* the browser answers the i-th getUserMedia call
GetUserMediaSettles(i) ==
    /\ i \in DOMAIN requests
    /\ requests[i].state = "pending"
    /\ \/ \E cap \in BOOLEAN : Becomes(getUserMediaResolves(Camera, i, cap))
       \/ Becomes(getUserMediaRejects(Camera, i))

\* video.play() of the i-th stream settles
PlaySettles(i) ==
    /\ i \in DOMAIN requests
    /\ requests[i].play = "pending"
    /\ \E ok \in BOOLEAN : Becomes(playSettles(Camera, i, ok))

\* the oldest applyConstraints call settles, and the captureFrame call that
\* awaits it goes on
ApplyConstraintsSettles ==
    /\ flashOps # <<>>
    /\ LET awaitedBy == Head(flashOps).awaitedBy
           lit == applyConstraintsSettles(Camera)
       IN  IF awaitedBy = <<>>
           THEN Becomes(lit)
           ELSE \E outcome \in CaptureOutcomes(awaitedBy[1]) :
                   Becomes(captureEnds(lit, awaitedBy[1], outcome))

\* the timer of captureFrame fires: applyFlash('off')
FlashOffTimer ==
    /\ offTimers # <<>>
    /\ Becomes(applyFlash([Camera EXCEPT !.offTimers = Tail(@)], "off",
                          Head(offTimers).flashSupported, <<>>))

NextCameraLayer ==
    \/ MountCamera
    \/ HandleFlip
    \/ HandleFlashCycle
    \/ HandleShutter
    \/ \E i \in 1 .. MaxRequests : GetUserMediaSettles(i)
    \/ \E i \in 1 .. MaxRequests : PlaySettles(i)
    \/ ApplyConstraintsSettles
    \/ FlashOffTimer

CameraLayerSpec == InitCameraLayer /\ [][NextCameraLayer]_vars

----------------------------------------------------------------------------
(* Properties of the filter engine *)

\* offsets of the first byte of each pixel of buf
PixelOffsets(buf) == {4 * k : k \in 0 .. (Len(buf) \div 4 - 1)}

\* out is an integer nearest to num/den clamped to [0, 255]
NearestByte(out, num, den) ==
    IF num <= 0 THEN out = 0
    ELSE IF num >= 255 * den THEN out = 255
    ELSE 2 * Abs(den * out - num) <= den

\* a capture has run to its return statement
Captured == mounted /\ video # <<>>

\* C1: a capture with filter 'original' leaves every byte of the drawn frame
\* unchanged (canvas and returned image are the frame as drawn), and
\* applyPixelFilter with 'original' maps that buffer to itself.
C1_OriginalIsIdentity ==
    (Captured /\ usedFilter = "original") =>
        /\ canvas = drawn
        /\ dataUrl = drawn
        /\ applyPixelFilter(drawn, "original") = {drawn}

C1_Witness ==
    /\ Captured
    /\ usedFilter = "original"
    /\ Len(drawn) = 8
    /\ dataUrl = drawn

\* C2 (as claimed): each of pastel, soft, crisp and fade changes the R, G or B
\* value of at least one input pixel.
C2_FourFiltersTransform ==
    (calls > 0 /\ filterName \in {"pastel", "soft", "crisp", "fade"}) =>
        \E p \in SinglePixels : applyPixelFilter(p, filterName) # {p}

\* C3 (as claimed): mono on (200,100,50) has luminance 128.85, contrasted
\* value 128.94 and stores (129,129,129).
C3_MonoReferenceAsClaimed ==
    (calls = 1 /\ filterName = "mono" /\ Len(input) = 4
       /\ SubSeq(input, 1, 3) = <<200, 100, 50>>) =>
        /\ monoGray(input, 0) = Dec(12885, 100)
        /\ monoContrasted(monoGray(input, 0)) = Dec(12894, 100)
        /\ SubSeq(data, 1, 3) = <<129, 129, 129>>

\* C3 (amended): mono on (200,100,50) has luminance 124.2, contrasted value
\* 123.82 and stores (124,124,124).
C3_MonoReference ==
    (calls = 1 /\ filterName = "mono" /\ Len(input) = 4
       /\ SubSeq(input, 1, 3) = <<200, 100, 50>>) =>
        /\ monoGray(input, 0) = Dec(1242, 10)
        /\ monoContrasted(monoGray(input, 0)) = Dec(12382, 100)
        /\ SubSeq(data, 1, 3) = <<124, 124, 124>>

C3_Witness ==
    /\ calls = 1
    /\ filterName = "mono"
    /\ input = <<200, 100, 50, 128>>
    /\ data = <<124, 124, 124, 128>>

\* C4: mono stores in R, G and B of every pixel the same byte, a nearest
\* integer of clamp((0.299R + 0.587G + 0.114B - 128) * 1.1 + 128) taken over the
\* pixel's original R, G, B (in units of 1/10000).
C4_MonoFormula ==
    (calls = 1 /\ filterName = "mono") =>
        \A i \in PixelOffsets(input) :
            LET lum == 299 * input[i + 1] + 587 * input[i + 2] + 114 * input[i + 3]
            IN  /\ data[i + 1] = data[i + 2]
                /\ data[i + 2] = data[i + 3]
                /\ NearestByte(data[i + 1], 11 * (lum - 128000) + 1280000, 10000)

C4_Witness ==
    /\ calls = 1
    /\ filterName = "mono"
    /\ input = <<0, 0, 0, 0, 200, 100, 50, 128>>
    /\ data = <<0, 0, 0, 0, 124, 124, 124, 128>>

\* C5: after any number of calls of any filter every byte of the buffer is an
\* integer in 0..255, and a channel whose arithmetic result lies above 255
\* (below 0) is stored as 255 (as 0): the result saturates, it never wraps.
C5_ChannelsClamped ==
    /\ calls > 0 => \A j \in 1 .. Len(data) : data[j] \in 0 .. 255
    /\ (calls = 1 /\ filterName \in PixelMathFilters) =>
           \A i \in PixelOffsets(input) : \A c \in 1 .. 3 :
               LET v == rgbBeforeClamp(input, filterName, i)[c]
               IN  /\ Less(Num(255), v) => data[i + c] = 255
                   /\ Less(v, Num(0)) => data[i + c] = 0

\* warm on black and white: blue of black is -20, red of white is 291.6
C5_Witness ==
    /\ calls = 1
    /\ filterName = "warm"
    /\ input = <<0, 0, 0, 0, 255, 255, 255, 255>>
    /\ Less(warmRGB(input, 0)[3], Num(0))
    /\ Less(Num(255), warmRGB(input, 4)[1])
    /\ data[3] = 0
    /\ data[5] = 255

\* C6: applyPixelFilter changes neither the length of the buffer nor the
\* alpha byte (offset 3) of any pixel, for every filter.
C6_AlphaAndLengthKept ==
    calls > 0 =>
        /\ Len(data) = Len(input)
        /\ \A i \in PixelOffsets(input) : data[i + 4] = input[i + 4]

C6_Witness ==
    /\ calls = 1
    /\ filterName = "vintage"
    /\ input = <<200, 100, 50, 128, 0, 0, 0, 0>>
    /\ data # input
    /\ data[4] = 128
    /\ data[8] = 0

\* C7: a capture returns an image; it is the complete unfiltered frame when
\* the filter step threw anywhere, and the fully filtered frame otherwise.
C7_AllOrNothing ==
    Captured =>
        /\ dataUrl # Null
        /\ IF filterFault # "none"
           THEN dataUrl = drawn
           ELSE dataUrl \in applyPixelFilter(drawn, usedFilter)

\* the filter threw after the first of two pixels: the ImageData buffer is
\* half filtered, the returned image is the unfiltered frame
C7_Witness ==
    /\ Captured
    /\ filterFault = "apply"
    /\ Len(drawn) = 8
    /\ SubSeq(imageData, 1, 4) # SubSeq(drawn, 1, 4)
    /\ SubSeq(imageData, 5, 8) = SubSeq(drawn, 5, 8)
    /\ imageData \notin applyPixelFilter(drawn, usedFilter)
    /\ dataUrl = drawn

C9_CoolFormula ==
    (calls = 1 /\ filterName = "cool") =>
        \A i \in PixelOffsets(input) :
            LET R == input[i + 1]
                G == input[i + 2]
                B == input[i + 3]
                S == R + G + B
            IN  /\ NearestByte(data[i + 1], (100 * S + 90 * (3 * R - S) - 3000) * 102, 30000)
                /\ NearestByte(data[i + 2], (100 * S + 100 * (3 * G - S) + 1500) * 105, 30000)
                /\ NearestByte(data[i + 3], (100 * S + 110 * (3 * B - S) + 6000) * 108, 30000)

C9_Witness ==
    /\ calls = 1
    /\ filterName = "cool"
    /\ input = <<200, 100, 50, 255>>
    /\ data = <<185, 110, 68, 255>>

\* C10: vibrant stores, per channel, a nearest integer of the clamped value of
\*   (((gray + (c - gray) * 1.5) - 128) * 1.1 + 128) * 1.03
\* (saturation, then contrast, then brightness, then clamp).
C10_VibrantFormula ==
    (calls = 1 /\ filterName = "vibrant") =>
        \A i \in PixelOffsets(input) : \A c \in 1 .. 3 :
            LET S == input[i + 1] + input[i + 2] + input[i + 3]
                sat == 10 * S + 15 * (3 * input[i + c] - S)
            IN  NearestByte(data[i + c], (11 * (sat - 3840) + 38400) * 103, 30000)

C10_Witness ==
    /\ calls = 1
    /\ filterName = "vibrant"
    /\ input = <<200, 100, 50, 255>>
    /\ data = <<255, 91, 6, 255>>

\* C11: vintage stores, per channel, a nearest integer of the clamped value of
\*   ((t(gray + (c - gray) * 0.7) - 128) * 0.85 + 128) + lift
\* with the tint t(x) = x * 1.1 + 10, x * 1.0 + 5, x * 0.85 - 5 and
\* lift = +15, +10, +5 for R, G, B (R, G in units of 1/30000, B of 1/300000).
C11_VintageFormula ==
    (calls = 1 /\ filterName = "vintage") =>
        \A i \in PixelOffsets(input) :
            LET R == input[i + 1]
                G == input[i + 2]
                B == input[i + 3]
                S == R + G + B
                desatR == 10 * S + 7 * (3 * R - S)
                desatG == 10 * S + 7 * (3 * G - S)
                desatB == 10 * S + 7 * (3 * B - S)
            IN  /\ NearestByte(data[i + 1],
                       (11 * desatR + 3000 - 38400) * 85 + (128 + 15) * 30000, 30000)
                /\ NearestByte(data[i + 2],
                       (10 * desatG + 1500 - 38400) * 85 + (128 + 10) * 30000, 30000)
                /\ NearestByte(data[i + 3],
                       (85 * desatB - 15000 - 384000) * 85 + (128 + 5) * 300000, 300000)

\* (200,100,50): R 206.325 -> 206, G 122.7 -> 123, B 70.525 -> 71
C11_Witness ==
    /\ calls = 1
    /\ filterName = "vintage"
    /\ input = <<200, 100, 50, 255>>
    /\ data = <<206, 123, 71, 255>>

\* C12: warm and cool are not idempotent: on the pixel (200,100,50) the
\* buffer after two calls is none of the buffers one call can leave; warm
\* gives (246,112,37) then (255,124,26), cool (185,110,68) then (172,121,89).
C12_NotIdempotent ==
    (calls = 2 /\ Len(input) = 4 /\ SubSeq(input, 1, 3) = <<200, 100, 50>>) =>
        /\ filterName \in {"warm", "cool"} => data \notin applyPixelFilter(input, filterName)
        /\ filterName = "warm" => SubSeq(data, 1, 3) = <<255, 124, 26>>
        /\ filterName = "cool" => SubSeq(data, 1, 3) = <<172, 121, 89>>

C12_Witness ==
    /\ calls = 2
    /\ filterName = "warm"
    /\ input = <<200, 100, 50, 255>>
    /\ applyPixelFilter(input, "warm") = {<<246, 112, 37, 255>>}
    /\ data = <<255, 124, 26, 255>>

----------------------------------------------------------------------------
(* Properties of the export compositor *)

\* exportImage has drawn every layer
Exported == exportPhase # "idle"

ElementKinds == {"sticker", "emoji", "text"}

\* the strokes of the request that have at least 2 points, in array order
RenderableStrokes ==
    LET renderable(stroke) == Len(stroke.points) >= 2
    IN  SelectSeq(exportArgs.strokes, renderable)

\* the elements of the request of one type, in array (insertion) order
ElementsOfType(type) ==
    LET isType(element) == element.type = type
    IN  SelectSeq(exportArgs.elements, isType)

\* the draw calls of one kind, in the order they were made
OpsOfKind(kind) ==
    LET isKind(o) == o.op = kind
    IN  SelectSeq(exportOps, isKind)

StrokeOps == OpsOfKind("stroke")

ElementOps ==
    LET isElement(o) == o.op \in ElementKinds
    IN  SelectSeq(exportOps, isElement)

\* C13: the export draws the base raster first, then every renderable stroke
\* in array order, then every placed element: no element is drawn before a
\* stroke and nothing is drawn before the base raster.
C13_LayerOrder ==
    Exported =>
        /\ exportOps = <<[op |-> "drawImage", x |-> <<0, 1>>, y |-> <<0, 1>>]>>
                       \o StrokeOps \o ElementOps
        /\ Len(StrokeOps) = Len(RenderableStrokes)
        /\ \A k \in DOMAIN StrokeOps :
              /\ StrokeOps[k].strokeStyle = RenderableStrokes[k].color
              /\ Len(StrokeOps[k].path) = Len(RenderableStrokes[k].points)
        /\ Len(ElementOps) = Len(ElementsOfType("sticker"))
                             + Len(ElementsOfType("emoji"))
                             + Len(ElementsOfType("text"))

C13_Witness ==
    /\ Exported
    /\ Len(exportArgs.strokes) = 1
    /\ Len(exportArgs.elements) = 2
    /\ Len(exportOps) = 4
    /\ exportOps[2].op = "stroke"
    /\ exportOps[3].op = "sticker"
    /\ exportOps[4].op = "text"

\* C14: whatever the insertion order of the elements array, every sticker is
\* drawn before every emoji and every emoji before every text, and each
\* element of these three types is drawn.
C14_TypeOrder ==
    Exported =>
        /\ ElementOps = OpsOfKind("sticker") \o OpsOfKind("emoji") \o OpsOfKind("text")
        /\ \A kind \in ElementKinds :
              Len(OpsOfKind(kind)) = Len(ElementsOfType(kind))

C14_Witness ==
    /\ Exported
    /\ Len(exportArgs.elements) = 3
    /\ exportArgs.elements[1].type = "text"
    /\ exportArgs.elements[2].type = "emoji"
    /\ exportArgs.elements[3].type = "sticker"
    /\ Len(ElementOps) = 3
    /\ ElementOps[1].op = "sticker"
    /\ ElementOps[2].op = "emoji"
    /\ ElementOps[3].op = "text"

\* C15: elements of the same type are drawn in their original insertion
\* order: the k-th drawn element of a type is the k-th element of that type
\* in the elements array.
C15_StableWithinType ==
    Exported =>
        \A kind \in ElementKinds :
            /\ Len(OpsOfKind(kind)) = Len(ElementsOfType(kind))
            /\ \A k \in DOMAIN OpsOfKind(kind) :
                  <<OpsOfKind(kind)[k]>> = drawElement(ElementsOfType(kind)[k], exportScale)

C15_Witness ==
    /\ Exported
    /\ exportScale = <<2, 1>>
    /\ Len(exportArgs.elements) = 3
    /\ exportArgs.elements[1].id = "sticker-2"
    /\ exportArgs.elements[2].id = "emoji-1"
    /\ exportArgs.elements[3].id = "sticker-1"
    /\ Len(ElementOps) = 3
    /\ ElementOps[1].op = "sticker" /\ ElementOps[1].x = <<60, 1>>
    /\ ElementOps[2].op = "sticker" /\ ElementOps[2].x = <<20, 1>>
    /\ ElementOps[3].op = "emoji"

\* C16: a stroke of fewer than 2 points causes no draw call; a stroke of
\* n >= 2 points is drawn as one path through all its n points in order; a
\* skipped stroke does not keep later strokes from being drawn.
C16_ShortStrokesSkipped ==
    Exported =>
        /\ Len(StrokeOps) = Len(RenderableStrokes)
        /\ \A k \in DOMAIN StrokeOps :
              LET points == RenderableStrokes[k].points
                  path == StrokeOps[k].path
              IN  /\ Len(path) = Len(points)
                  /\ Len(path) >= 2
                  /\ \A j \in DOMAIN path :
                        path[j] = <<jsTimes(points[j].x, exportScale),
                                    jsTimes(points[j].y, exportScale)>>

C16_Witness ==
    /\ Exported
    /\ exportScale = <<2, 1>>
    /\ Len(exportArgs.strokes) = 2
    /\ Len(exportArgs.strokes[1].points) = 1
    /\ Len(exportArgs.strokes[2].points) = 3
    /\ Len(StrokeOps) = 1
    /\ StrokeOps[1].path = << <<<<10, 1>>, <<10, 1>>>>, <<<<15, 1>>, <<18, 1>>>>,
                              <<<<40, 1>>, <<2, 1>>>> >>

\* C18 (as claimed): the scale is baseCanvas.width / displayWidth when
\* displayWidth is positive, and 1 whenever displayWidth is zero or undefined,
\* whatever baseCanvas.width is.
C18_ScaleRule ==
    Exported =>
        LET w == exportArgs.width
            dw == exportArgs.displayWidth
        IN  /\ (dw # <<>> /\ dw[1] > 0) =>
                  /\ exportScale[2] > 0
                  /\ exportScale[1] * dw[1] * w[2] = w[1] * exportScale[2] * dw[2]
            /\ (dw = <<>> \/ dw = <<0, 1>>) => exportScale = <<1, 1>>

\* the elements of the request that are drawn, in drawing order
PlacedInDrawOrder ==
    ElementsOfType("sticker") \o ElementsOfType("emoji") \o ElementsOfType("text")

\* C19: every stroke point coordinate, every stroke line width and every
\* element x and y is the source value times the scale and nothing else; when
\* baseCanvas.width is exactly twice a positive displayWidth each of them is
\* exactly 2 times the source value.
C19_ScaledByDpr ==
    Exported =>
        LET w == exportArgs.width
            dw == exportArgs.displayWidth
            doubled == dw # <<>> /\ dw[1] > 0 /\ w[1] * dw[2] = 2 * dw[1] * w[2]
            Twice(out, v) == out[2] > 0 /\ out[1] * v[2] = 2 * v[1] * out[2]
            table(size) == IF size = "medium" THEN <<8, 1>> ELSE <<4, 1>>
        IN  /\ Len(StrokeOps) = Len(RenderableStrokes)
            /\ Len(ElementOps) = Len(PlacedInDrawOrder)
            /\ \A k \in DOMAIN StrokeOps :
                  LET stroke == RenderableStrokes[k]
                      drawn_ == StrokeOps[k]
                  IN  /\ drawn_.lineWidth = jsTimes(table(stroke.size), exportScale)
                      /\ doubled => Twice(drawn_.lineWidth, table(stroke.size))
                      /\ \A j \in DOMAIN stroke.points :
                            /\ drawn_.path[j][1] = jsTimes(stroke.points[j].x, exportScale)
                            /\ drawn_.path[j][2] = jsTimes(stroke.points[j].y, exportScale)
                            /\ doubled => /\ Twice(drawn_.path[j][1], stroke.points[j].x)
                                          /\ Twice(drawn_.path[j][2], stroke.points[j].y)
            /\ \A k \in DOMAIN ElementOps :
                  LET element == PlacedInDrawOrder[k]
                      drawn_ == ElementOps[k]
                  IN  /\ drawn_.x = jsTimes(element.x, exportScale)
                      /\ drawn_.y = jsTimes(element.y, exportScale)
                      /\ doubled => /\ Twice(drawn_.x, element.x)
                                    /\ Twice(drawn_.y, element.y)

C19_Witness ==
    /\ Exported
    /\ exportArgs.width = <<300, 1>>
    /\ exportArgs.displayWidth = <<150, 1>>
    /\ exportScale = <<2, 1>>
    /\ Len(exportArgs.strokes) = 1
    /\ exportArgs.strokes[1].size = "medium"
    /\ Len(StrokeOps) = 1
    /\ StrokeOps[1].lineWidth = <<16, 1>>
    /\ StrokeOps[1].path = << <<<<20, 1>>, <<40, 1>>>>, <<<<60, 1>>, <<80, 1>>>> >>
    /\ Len(exportArgs.elements) = 1
    /\ exportArgs.elements[1].id = "emoji-1"
    /\ Len(ElementOps) = 1
    /\ ElementOps[1].x = <<45, 1>>
    /\ ElementOps[1].y = <<14, 1>>

\* C20: a text drawn with styleMode background or highlight has black ink
\* when the element's colour is white (#FFFFFF) or #FFCC00 and white ink for
\* every other colour.
C20_ContrastingInk ==
    Exported =>
        /\ Len(OpsOfKind("text")) = Len(ElementsOfType("text"))
        /\ \A k \in DOMAIN OpsOfKind("text") :
              LET style == ElementsOfType("text")[k].data.style
                  drawn_ == OpsOfKind("text")[k]
              IN  style.styleMode \in {"background", "highlight"} =>
                      IF style.color = "#FFFFFF" \/ style.color = "#FFCC00"
                      THEN drawn_.ink = "#000"
                      ELSE drawn_.ink = "#FFF"

C20_Witness ==
    /\ Exported
    /\ Len(exportArgs.elements) = 1
    /\ exportArgs.elements[1].data.style.styleMode = "highlight"
    /\ exportArgs.elements[1].data.style.color = "#FFCC00"
    /\ Len(exportOps) = 2
    /\ exportOps[2].op = "text"
    /\ exportOps[2].fill = "#FFCC00"
    /\ exportOps[2].ink = "#000"

\* the promise of exportImage is in step with the call: absent before it,
\* pending until the toBlob callback, then fulfilled with the data URL and a
\* blob, or rejected with an error and without a blob
ExportPromiseInStep ==
    /\ exportPhase = "idle" => exportPromise.state = "none"
    /\ exportPhase = "drawn" => exportPromise.state = "pending"
    /\ exportPhase = "settled" =>
          \/ /\ exportPromise.state = "fulfilled"
             /\ exportPromise.blob # <<>>
             /\ exportPromise.dataURL = <<"image/png", exportOps>>
             /\ exportPromise.error = ""
          \/ /\ exportPromise.state = "rejected"
             /\ exportPromise.blob = <<>>
             /\ exportPromise.error # ""

\* a settled promise stays as it is
ExportPromiseKept ==
    exportPromise.state \in {"fulfilled", "rejected"} => exportPromise' = exportPromise

\* C21: the promise of exportImage settles exactly once: fulfilled with a
\* data URL and a non-null blob when the encoding gives a blob, rejected with
\* an error when it gives none, never fulfilled with a null blob.
C21_SettlesOnce ==
    /\ []ExportPromiseInStep
    /\ [][ExportPromiseKept]_vars

C21_Witness ==
    /\ exportPhase = "settled"
    /\ exportPromise.state = "rejected"
    /\ exportPromise.error = "Failed to create image blob"
    /\ Len(exportOps) >= 2

\* C24: exportImage leaves the caller's strokes and elements arrays, and
\* every item in them, as they were before the call.
C24_CallerCollectionsKept == [][exportArgs' = exportArgs]_vars

C24_Witness ==
    /\ Exported
    /\ Len(exportArgs.elements) = 3
    /\ exportArgs.elements[1].id = "text-2"
    /\ exportArgs.elements[2].id = "emoji-2"
    /\ exportArgs.elements[3].id = "sticker-1"
    /\ Len(ElementOps) = 3
    /\ ElementOps[1].op = "sticker"
    /\ ElementOps[3].op = "text"

\* a sticker, emoji or text element whose data or style is missing
Malformed(element) ==
    \/ element.type = "sticker" /\ element.data.stickerId = "(undefined)"
    \/ element.type = "emoji" /\ element.data.emojiChar = "(undefined)"
    \/ /\ element.type = "text"
       /\ \/ element.data.text = "(undefined)"
          \/ \A f \in DOMAIN element.data.style :
                element.data.style[f] = "(undefined)"

\* the well-formed elements of the request, in drawing order
WellFormedInDrawOrder ==
    LET wellFormed(element) == ~Malformed(element)
    IN  SelectSeq(PlacedInDrawOrder, wellFormed)

\* C25 (as claimed): a malformed element is skipped, nothing is drawn for
\* it, and every other element is drawn in z-order.
C25_MalformedSkipped ==
    Exported =>
        /\ Len(ElementOps) = Len(WellFormedInDrawOrder)
        /\ \A k \in DOMAIN ElementOps :
              ElementOps[k].op = WellFormedInDrawOrder[k].type

\* C25 (amended): a malformed element is not skipped but drawn with the
\* defaults of its draw function; every element, malformed or not, is drawn
\* in z-order, and the export is produced.
C25_MalformedDrawnWithDefaults ==
    Exported =>
        /\ Len(ElementOps) = Len(PlacedInDrawOrder)
        /\ exportPromise.state \in {"pending", "fulfilled", "rejected"}
        /\ \A k \in DOMAIN ElementOps :
              LET element == PlacedInDrawOrder[k]
                  drawn_ == ElementOps[k]
              IN  /\ drawn_.op = element.type
                  /\ drawn_.x = jsTimes(element.x, exportScale)
                  /\ drawn_.y = jsTimes(element.y, exportScale)
                  /\ (element.type = "sticker" /\ Malformed(element)) =>
                        drawn_.label = "sticker"
                  /\ (element.type = "emoji" /\ Malformed(element)) =>
                        drawn_.char = "smile"
                  /\ (element.type = "text" /\ element.data.text = "(undefined)") =>
                        drawn_.text = ""
                  /\ (element.type = "text" /\ element.data.style.color = "(undefined)"
                         /\ element.data.style.styleMode = "(undefined)") =>
                        /\ drawn_.styleMode = "normal"
                        /\ drawn_.ink = "#fff"

C25_Witness ==
    /\ Exported
    /\ Len(exportArgs.elements) = 3
    /\ exportArgs.elements[1].id = "text-1"
    /\ exportArgs.elements[2].id = "emoji-2"
    /\ exportArgs.elements[3].id = "sticker-2"
    /\ Malformed(exportArgs.elements[2])
    /\ Malformed(exportArgs.elements[3])
    /\ Len(ElementOps) = 3
    /\ ElementOps[1].op = "sticker" /\ ElementOps[1].label = "sticker"
    /\ ElementOps[2].op = "emoji" /\ ElementOps[2].char = "smile"
    /\ ElementOps[3].op = "text"

\* C27 (as claimed): the export brush table matches DrawTool's: for every
\* brush size DrawTool offers, a stroke of that size is exported with a line
\* width of the scale times the width DrawTool draws it with on screen.
C27_BrushWidthsMatch ==
    Exported =>
        \A k \in DOMAIN RenderableStrokes :
            RenderableStrokes[k].size \in DOMAIN DRAWTOOL_BRUSH_SIZES =>
                StrokeOps[k].lineWidth =
                    jsTimes(drawToolLineWidth(RenderableStrokes[k].size),
                            exportScale)

----------------------------------------------------------------------------
(* Properties of the drawing tool *)

\* every persisted stroke has at least 2 points
PersistedStrokesHaveTwoPoints ==
    \A k \in DOMAIN strokes : Len(strokes[k].points) >= 2

\* a step that ends a gesture of fewer than 2 points (pointer up, Done, or a
\* second finger) leaves the persisted list as it was
ShortGestureDiscarded ==
    (/\ currentStroke # <<>>
     /\ Len(currentStroke[1].points) < 2
     /\ currentStroke' = <<>>) => strokes' = strokes

\* C17: after any sequence of drawing events every persisted stroke has at
\* least 2 points, and a gesture that ends with fewer than 2 points is
\* discarded and leaves the persisted list unchanged.
C17_OnlyStrokesOfTwoPoints ==
    /\ []PersistedStrokesHaveTwoPoints
    /\ [][ShortGestureDiscarded]_vars

C17_Witness ==
    /\ Len(strokes) = 1
    /\ Len(strokes[1].points) = 2
    /\ strokes[1].size = "medium"
    /\ isDrawing = FALSE
    /\ currentStroke = <<>>
    /\ isActive

\* the step of Done that queues onExit: the stroke in progress is appended to
\* the persisted list when it has at least 2 points, the list is unchanged
\* otherwise, and draw mode is still on (onExit has not run)
DoneCommitsBeforeExit ==
    (~exitPending /\ exitPending') =>
        /\ isActive'
        /\ currentStroke' = <<>>
        /\ strokes' = IF currentStroke # <<>> /\ Len(currentStroke[1].points) >= 2
                      THEN Append(strokes, currentStroke[1])
                      ELSE strokes

\* the step in which onExit runs leaves the persisted list as it is
ExitKeepsStrokes ==
    (isActive /\ ~isActive') => strokes' = strokes

\* C30: when Done is pressed in draw mode with an in-progress stroke of at
\* least 2 points, that stroke is appended to the persisted strokes before
\* onExit is invoked; an in-progress stroke of fewer than 2 points is dropped
\* and the persisted list is unchanged.
C30_DoneCommitsStroke ==
    /\ [][DoneCommitsBeforeExit]_vars
    /\ [][ExitKeepsStrokes]_vars

C30_Witness ==
    /\ exitPending
    /\ isActive
    /\ Len(strokes) = 2
    /\ strokes[2].size = "medium"
    /\ strokes[2].color = "#FF3B30"
    /\ currentStroke = <<>>
    /\ strokeColor = "#FFFFFF"
    /\ brushSize = "small"

----------------------------------------------------------------------------
(* Properties of the Done flow and of App *)

\* the properties of a shareImage result that are true
Outcomes(result) ==
    {name \in {"shared", "cancelled", "failed", "notSupported"} :
        \/ name = "shared" /\ result.shared
        \/ name = "cancelled" /\ result.cancelled
        \/ name = "failed" /\ result.error
        \/ name = "notSupported" /\ result.notSupported}

\* the latest run of handleDone has come to its end
DoneEnded == doneFlow.pc = "idle" /\ (doneFlow.result # <<>> \/ doneFlow.thrown # "")

\* C22: shareImage never rejects, and its result reports exactly one of
\* shared (the share was fulfilled), cancelled (rejected with AbortError),
\* failed (rejected with another error) and notSupported (the capability
\* query is absent or says no); when the result is notSupported the share
\* call was not made, and notSupported is never reported as failed.
C22_ShareOutcomes ==
    /\ doneFlow.queried =>
          /\ doneFlow.thrown = ""
          /\ doneFlow.invoked <=> canShare = "yes"
          /\ doneFlow.pc = "idle" <=> doneFlow.result # <<>>
    /\ doneFlow.result # <<>> =>
          LET result == doneFlow.result[1]
          IN  /\ Cardinality(Outcomes(result)) = 1
              /\ result.shared <=> doneFlow.settled = "fulfilled"
              /\ result.cancelled <=> doneFlow.settled = "AbortError"
              /\ result.error <=>
                    doneFlow.settled \in ShareSettlements \ {"fulfilled", "AbortError"}
              /\ result.notSupported <=> canShare \in {"absent", "no"}
              /\ result.notSupported => ~doneFlow.invoked /\ ~result.error

C22_Witness ==
    /\ doneFlow.result # <<>>
    /\ doneFlow.result[1].cancelled
    /\ ~doneFlow.result[1].shared
    /\ doneFlow.invoked
    /\ doneFlow.settled = "AbortError"

\* C23: in exportAndShare the share step starts only after exportImage has
\* resolved; when exportImage rejects, the capability is never queried and
\* the share never invoked, the rejection reaches the caller and no result
\* object is returned.
C23_ShareAfterExport ==
    /\ doneFlow.pc = "exporting" => ~doneFlow.queried /\ ~doneFlow.invoked
    /\ doneFlow.queried \/ doneFlow.invoked => exportPromise.state = "fulfilled"
    /\ (doneFlow.pc # "exporting" /\ exportPromise.state = "rejected") =>
          /\ ~doneFlow.queried
          /\ ~doneFlow.invoked
          /\ doneFlow.thrown = exportPromise.error
          /\ doneFlow.thrown # ""
          /\ doneFlow.result = <<>>

C23_Witness ==
    /\ exportPromise.state = "rejected"
    /\ doneFlow.pc = "idle"
    /\ doneFlow.thrown = "Failed to create image blob"
    /\ canShare = "yes"
    /\ ~doneFlow.invoked

\* C28 (as claimed): App.handleDone does not reset to the camera: the step
\* in which the editor calls onDone leaves mode and the captured image as
\* they were.
C28_DoneStaysInEditor ==
    [][(~doneFlow.onDone /\ doneFlow'.onDone) =>
          (mode' = mode /\ capturedImage' = capturedImage)]_vars

\* a run of handleDone that ended called onDone exactly when its result is
\* shared or cancelled
OnDoneOnlyAfterShare ==
    DoneEnded =>
        (doneFlow.onDone <=>
            /\ doneFlow.result # <<>>
            /\ Outcomes(doneFlow.result[1]) \subseteq {"shared", "cancelled"})

\* the step that ends a run of handleDone without calling onDone leaves the
\* strokes and the placed elements as they were
NoOnDoneKeepsEditor ==
    (doneFlow.pc # "idle" /\ doneFlow'.pc = "idle" /\ ~doneFlow'.onDone) =>
        (strokes' = strokes /\ placedElements' = placedElements)

\* C29: in the editor's Done flow onDone is called exactly when the outcome
\* is shared or cancelled, never for notSupported, failed or a failed export;
\* in those cases the strokes and placed elements remain unchanged.
C29_OnDoneWhenSharedOrCancelled ==
    /\ []OnDoneOnlyAfterShare
    /\ [][NoOnDoneKeepsEditor]_vars

C29_Witness ==
    /\ DoneEnded
    /\ doneFlow.result # <<>>
    /\ doneFlow.result[1].error
    /\ ~doneFlow.onDone
    /\ doneFlow.live
    /\ Len(strokes) = 1
    /\ Len(placedElements) = 2
    /\ ~isExporting

----------------------------------------------------------------------------
(* Properties of the placed elements *)

\* C26 (as claimed): after any sequence of add, drag, pinch (including a
\* pinch whose two touches start at the same point), re-edit and remove,
\* the scale of every placed element is a number within [0.3, 3.0].
C26_ScaleWithinRange ==
    \A k \in DOMAIN placedElements :
        LET scale == placedElements[k].scale
        IN  /\ IsFinite(scale)
            /\ ~Less(scale, Dec(3, 10))
            /\ ~Less(Num(3), scale)

\* what the editor shows: the tool and the modal that are active, draw mode,
\* the strokes and the placed elements
editorState ==
    <<activeTool, isStickerDrawerOpen, isEditingText, activeTextId, isActive,
      isExporting, strokes, currentStroke, placedElements>>

\* a tap on the canvas that a guard of handleCanvasTap turns away
BlockedCanvasTap ==
    /\ isEditingText \/ isActive \/ isStickerDrawerOpen \/ isEmojiPickerOpen
    /\ \E onElement \in BOOLEAN : HandleCanvasTap(onElement)

\* a press of a tool other than text while text is being edited
BlockedToolPress ==
    /\ isEditingText
    /\ \E tool \in ToolButtons \ {"text"} : HandleToolPress(tool)

\* C31: a tap on the canvas while text is being edited, while draw mode is
\* active or while the sticker drawer or emoji picker is open changes no
\* editor state (text-edit mode is not entered, no placed element is added
\* or changed); likewise a press of the stickers or draw tool while text is
\* being edited changes none (the press only stamps its time for the
\* debounce).
C31_GuardedTapAndPress ==
    [][(BlockedCanvasTap \/ BlockedToolPress) => UNCHANGED editorState]_vars

C31_Witness ==
    /\ isEditingText
    /\ activeTextId # <<>>
    /\ lastActionRef = now
    /\ now > 1000
    /\ placedElements # <<>>
    /\ ~isStickerDrawerOpen
    /\ ~isActive


\* x, y, scale and rotation of a placed element
transform(el) == <<el.x, el.y, el.scale, el.rotation>>

\* the step keeps every placed element, in its place and with its transform
ElementsHeld ==
    /\ Len(placedElements') >= Len(placedElements)
    /\ \A k \in DOMAIN placedElements :
          /\ placedElements'[k].id = placedElements[k].id
          /\ transform(placedElements'[k]) = transform(placedElements[k])

\* C32 (as claimed): gesture isolation: while the placed elements are not
\* interactive (draw mode, sticker drawer, emoji picker or text editor open,
\* or an export in progress) no placed element's x, y, scale or rotation
\* changes and none is removed, also during a drag or pinch that began
\* before the elements became non-interactive.
C32_GestureIsolation ==
    [][~elementsInteractive => ElementsHeld]_vars


----------------------------------------------------------------------------
(* Properties of App *)

\* the app is in EDITOR mode exactly when a captured image is stored
EditorIffImage ==
    /\ mode \in {"CAMERA", "EDITOR"}
    /\ mode = "EDITOR" <=> capturedImage # <<>>

\* handleCapture with an empty image leaves mode and image as they were
EmptyCaptureIgnored ==
    HandleCapture(<<>>) => UNCHANGED <<mode, capturedImage>>

\* a step that brings the app to CAMERA clears the stored image
ToCameraClearsImage ==
    (mode # "CAMERA" /\ mode' = "CAMERA") => capturedImage' = <<>>

\* opening or closing the settings changes neither mode nor image
SettingsKeepModeAndImage ==
    showSettings' # showSettings => UNCHANGED <<mode, capturedImage>>

\* C33: after any sequence of capture, retake, done and settings open/close
\* events the app is in EDITOR mode if and only if a captured image is
\* stored: handleCapture with an empty image leaves mode and image
\* unchanged, every transition to CAMERA clears the stored image, and
\* opening or closing the settings never changes the mode or the image.
C33_EditorIffImage ==
    /\ []EditorIffImage
    /\ [][EmptyCaptureIgnored]_vars
    /\ [][ToCameraClearsImage]_vars
    /\ [][SettingsKeepModeAndImage]_vars

C33_Witness ==
    /\ mode = "EDITOR"
    /\ capturedImage = <<"frame", 2>>
    /\ showSettings
    /\ doneFlow.onDone
    /\ ~doneFlow.live


----------------------------------------------------------------------------
(* Properties of the tools and modals *)

\* those of sticker drawer, emoji picker, text editor and draw mode that are
\* active
activeModes ==
    {name \in {"stickers", "emoji", "text", "draw"} :
        \/ name = "stickers" /\ isStickerDrawerOpen
        \/ name = "emoji" /\ isEmojiPickerOpen
        \/ name = "text" /\ isEditingText
        \/ name = "draw" /\ isActive}

\* C34 (as claimed): after any sequence of tool presses (more than the
\* 150 ms debounce apart), canvas taps, drawer closes, text save/cancel and
\* draw-mode exits, at most one of sticker drawer open, emoji picker open,
\* text editing and draw mode is active at the same time.
C34_AtMostOneModal == Cardinality(activeModes) <= 1


----------------------------------------------------------------------------
(* Properties of the exporting flag *)

\* no run of handleDone is in flight and the editor shows itself exporting
ExportingOnlyInFlight == doneFlow.pc = "idle" => ~isExporting

\* C35: every run of the editor's Done flow that sets isExporting to true
\* sets it back to false once export and share have settled, whatever the
\* outcome (shared, cancelled, notSupported, failed, export rejected);
\* isExporting is never left true after the flow has finished.
C35_ExportingEnds ==
    /\ []ExportingOnlyInFlight
    /\ (isExporting ~> ~isExporting)

C35_Witness ==
    /\ DoneEnded
    /\ doneFlow.live
    /\ doneFlow.thrown # ""
    /\ exportPromise.state = "rejected"
    /\ ~isExporting
    /\ EditorMounted


----------------------------------------------------------------------------
(* Properties of the camera *)

\* the acquired streams whose tracks run
RunningStreams == {i \in DOMAIN requests : requests[i].tracks = "running"}

\* C36 (as claimed): every camera stream acquired by initCamera is stopped
\* in the end: at any time at most one acquired stream has running tracks,
\* and after the hook has unmounted no acquired stream has running tracks,
\* also when flipCamera or the unmount happens while an earlier getUserMedia
\* request is still pending.
C36_StreamsStopped ==
    /\ Cardinality(RunningStreams) <= 1
    /\ ~mounted => RunningStreams = {}


\* the torch of the track trackRef.current holds
torch == streamRef # 0 /\ requests[streamRef].torch

\* no applyConstraints call and no flash-off timer is pending
FlashSettled == flashOps = <<>> /\ offTimers = <<>>

\* the camera is not being restarted: no getUserMedia call is pending and
\* the tracks of the stream in streamRef run
CameraSettled ==
    /\ streamRef # 0
    /\ requests[streamRef].tracks = "running"
    /\ \A i \in DOMAIN requests : requests[i].state # "pending"

\* C37 (as claimed): with flash supported, whenever flashMode is 'torch' and
\* no flash operation or timer is pending the torch is on, and whenever
\* flashMode is 'off' and none is pending the torch is off; the delayed
\* applyFlash('off') of a capture never leaves the torch off after the user
\* has cycled to 'torch'.  Stated for a camera that is not being restarted.
C37_TorchFollowsMode ==
    (mounted /\ flashSupported /\ FlashSettled /\ CameraSettled) =>
        /\ flashMode = "torch" => torch
        /\ flashMode = "off" => ~torch

\* the captureFrame calls in flight: those awaiting the flash (a call that
\* does not await the flash ends in the step that began it)
InFlight == {k \in DOMAIN flashOps : flashOps[k].awaitedBy # <<>>}

\* C38: at most one captureFrame call is in flight; onCapture is called at
\* most once per completed capture and only with a non-empty image; and
\* isCapturing is false once the capture has settled, whether it succeeded or
\* threw.
C38_OneCaptureAtATime ==
    /\ Cardinality(InFlight) <= 1
    /\ Len(captured) + Cardinality(InFlight) <= shots
    /\ \A k \in DOMAIN captured : captured[k] # Null
    /\ InFlight = {} => ~isCapturing

\* a capture that threw, then one with the flash that gave the image the
\* editor now shows
C38_Witness ==
    /\ shots = 2
    /\ Len(captured) = 1
    /\ capturedImage = captured[1]
    /\ mode = "EDITOR"
    /\ offTimers # <<>>
    /\ ~isCapturing

----------------------------------------------------------------------------
(* Properties of the element ids *)

============================================================================
